---- MODULE Spec2Model ----
(***************************************************************************)
(* The automated-reply pipelines of viral-kid (Twitter run route and       *)
(* Reddit run route) and the Reddit client's refreshTokenIfNeeded, as a    *)
(* state machine.  Time is counted in minutes.  Every await of a handler   *)
(* that touches shared state (credential rows, interaction rows, the       *)
(* platform) is an action boundary; log writes are folded into the step    *)
(* they narrate, since log rows are only ever appended.                    *)
(***************************************************************************)
EXTENDS Integers, Sequences, FiniteSets, TLC

\* ------------------------------------------------------------------ bounds
MaxInvocations == 2   \* pipeline invocations (POST requests) per behaviour
NumItems == 2         \* content items the platform search can return
MaxTime == 1          \* latest clock value of a direct refreshTokenIfNeeded call
MaxContent == 6       \* content items that exist on a platform
MaxKeywordLen == 4    \* characters of a keyword string
MaxPieces == 3        \* runs of equal characters in an LLM response
MaxTasks == 3         \* tasks handed to one limiter's schedule
MaxExtra == 1         \* enabled configurations beyond one full cron batch
MaxReplies == 3       \* items of a batch, texts of a thread
MaxToggles == 1       \* requests to the toggle route
MaxRequests == 2      \* overlapping account-creation requests of one user
MaxImages == 5        \* images attached to the selected tweet

\* -------------------------------------------------------- program constants
Absent == 0              \* a null / empty token (falsy in the code)
NoExpiry == -1           \* tokenExpiresAt = null
FiveMinutes == 5         \* 5 * 60 * 1000 ms
ExpiresIn == 60          \* expires_in of the token endpoint (3600 s)
DefaultMinimumLikes == 20
DefaultMinimumUpvotes == 10
KeepLast == 100          \* skip: 100 in the Reddit cleanup
OneDay == 1440           \* 24 * 60 * 60 * 1000 ms

Accounts == {"tw", "rd"}
Platform(a) == IF a = "tw" THEN "twitter" ELSE "reddit"
\* the two callers of POST: the cron job (x-cron-secret) and a signed-in user;
\* each issues its requests one after the other, the two may overlap
Runs == {"cron", "user"}
Items == 1..NumItems
\* everything that exists on the platform; a search returns some of it
Content == 1..MaxContent
\* twitterCredentials.username / redditCredentials.username
OwnUsername == "me"

\* --------------------------------------------------- the platform's content
\* engagement score (favorite_count / ups) of item i
Score(i) == IF i % 2 = 1 THEN 20 + 10 * i ELSE 5
\* reply_count / num_comments of item i
Replies(i) == i % 3
\* screen_name / author of item i
Author(i) ==
  IF i % 4 = 0 THEN "[deleted]" ELSE IF i % 5 = 0 THEN OwnUsername ELSE "someone"

VARIABLES
  now,        \* Date.now(), in minutes
  creds,      \* twitterCredentials / redditCredentials row per account
  config,     \* twitterConfig / redditConfig / openRouterCredentials per account
  ledger,     \* tweetInteraction / redditInteraction rows per account, by createdAt
  posted,     \* replies that exist on the platform
  nextToken,  \* next access token the token endpoint issues
  started,    \* number of invocations so far
  run,        \* per caller, its current invocation: position, locals, response, history
  client      \* a direct call of one function: its arguments, position, result

vars == <<now, creds, config, ledger, posted, nextToken, started, run, client>>

\* ------------------------------------------------------------- credentials
\* refreshTokenIfNeeded, first test: a token is missing
NoTokens(c) == c.accessToken = Absent \/ c.refreshToken = Absent

\* the margin test written with >= : a token expiring in exactly five minutes
\* would count as still valid
StillValid_inclusive(c, t) ==
  c.tokenExpiresAt # NoExpiry /\ c.tokenExpiresAt >= t + FiveMinutes

\* refreshTokenIfNeeded, second test: expiresAt && expiresAt > fiveMinutesFromNow
StillValid(c, t) == c.tokenExpiresAt # NoExpiry /\ c.tokenExpiresAt > t + FiveMinutes

\* what refreshTokenIfNeeded does with credentials c at time t
RefreshDecision(c, t) ==
  IF NoTokens(c) THEN "null"
  ELSE IF StillValid(c, t) THEN "existing"
  ELSE "exchange"

\* { accessToken: credentials.accessToken, expiresAt: credentials.tokenExpiresAt }:
\* the expiry is the very Date object that was loaded with the credentials
ExistingToken(c) ==
  [accessToken |-> c.accessToken, refreshToken |-> c.refreshToken,
   expiresAt |-> c.tokenExpiresAt, date |-> "loaded"]

\* the result of a successful exchange that issued token tok at time t; the
\* Twitter endpoint rotates the refresh token, the Reddit one keeps it
IssuedToken(p, c, tok, t) ==
  [accessToken |-> tok,
   refreshToken |-> IF p = "twitter" THEN tok ELSE c.refreshToken,
   expiresAt |-> t + ExpiresIn, date |-> "new"]

\* getTokenStatus(accessToken, tokenExpiresAt, refreshToken) of the accounts route
SevenDays == 10080
getTokenStatus(accessToken, tokenExpiresAt, refreshToken, t) ==
  IF accessToken = Absent THEN "not_connected"
  ELSE IF tokenExpiresAt = NoExpiry THEN "healthy"
  ELSE IF tokenExpiresAt < t
    THEN (IF refreshToken # Absent THEN "healthy" ELSE "expired")
  ELSE IF tokenExpiresAt < t + SevenDays
    THEN (IF refreshToken # Absent THEN "healthy" ELSE "expiring_soon")
  ELSE "healthy"

\* ------------------------------------------------------------ configuration
NoMinimum == -1          \* minimumLikesCount / minimumUpvotes = null

\* ValidateConfig of the Twitter route: the first missing field, "" when none
TwitterMissing(c, cfg) ==
  IF ~cfg.rapidApiKey THEN "RapidAPI key not configured"
  ELSE IF c.accessToken = Absent THEN "Twitter OAuth not connected"
  ELSE IF ~cfg.apiKey THEN "OpenRouter API key not configured"
  ELSE IF ~cfg.selectedModel THEN "No LLM model selected"
  ELSE ""

\* ValidateConfig of the Reddit route: the first missing field, "" when none
RedditMissing(c, cfg) ==
  IF c.accessToken = Absent THEN "Reddit OAuth not connected"
  ELSE IF cfg.search \in {"null", "blank"} THEN "No keywords configured"
  ELSE IF ~cfg.apiKey THEN "OpenRouter API key not configured"
  ELSE IF ~cfg.selectedModel THEN "No LLM model selected"
  ELSE ""

\* a route that refuses to run an account whose automation is switched off
MissingField_enabledOnly(p, c, cfg) ==
  IF ~cfg.enabled THEN "Automation is disabled"
  ELSE IF p = "twitter" THEN TwitterMissing(c, cfg) ELSE RedditMissing(c, cfg)

MissingField(p, c, cfg) ==
  IF p = "twitter" THEN TwitterMissing(c, cfg) ELSE RedditMissing(c, cfg)

\* twitterConfig?.minimumLikesCount ?? 20
MinimumLikes(cfg) == IF cfg.minimum = NoMinimum THEN DefaultMinimumLikes ELSE cfg.minimum
\* redditConfig.minimumUpvotes || 10
MinimumUpvotes(cfg) ==
  IF cfg.minimum = NoMinimum \/ cfg.minimum = 0 THEN DefaultMinimumUpvotes ELSE cfg.minimum

\* ------------------------------------------------------------------- runs
NoResponse == [status |-> 0, replied |-> FALSE, error |-> "", reply |-> 0]
NoCalls == [token |-> 0, fetch |-> 0, llm |-> 0, post |-> 0]
NoWrites == [cred |-> 0, ledger |-> 0]
NoCred == [accessToken |-> Absent, refreshToken |-> Absent, tokenExpiresAt |-> NoExpiry]
NoTokenResult == [accessToken |-> Absent, refreshToken |-> Absent,
                  expiresAt |-> NoExpiry, date |-> "none"]

IdleRun ==
  [pc |-> "idle", id |-> 0, acct |-> "none", cred |-> NoCred, tokenResult |-> NoTokenResult,
   accessToken |-> Absent, tweets |-> <<>>, target |-> 0, reply |-> 0,
   resp |-> NoResponse, steps |-> <<>>, calls |-> NoCalls, writes |-> NoWrites,
   twentyFourHoursAgo |-> 0, logs |-> <<>>,
   failed |-> "", empty |-> FALSE, logFailed |-> FALSE]

\* NextResponse.json(body, { status })
Respond(rr, status, replied, error) ==
  [rr EXCEPT !.pc = "done",
             !.resp = [status |-> status, replied |-> replied, error |-> error,
                       reply |-> IF replied THEN rr.reply ELSE 0]]

\* the outer catch of POST
PipelineFailed(p) ==
  IF p = "twitter" THEN "Pipeline failed unexpectedly" ELSE "Pipeline failed"
Crash(rr) == Respond(rr, 500, FALSE, PipelineFailed(Platform(rr.acct)))

\* await createLog(accountId, level, message): db.log.create resolves (ok) or
\* rejects, and a rejection leaves the enclosing try block
createLog(rr, level, message, ok) ==
  IF ok THEN [rr EXCEPT !.logs = Append(@, <<level, message>>)]
  ELSE [Crash(rr) EXCEPT !.logFailed = TRUE]

\* a createLog inside an inner try block of the Reddit route: its rejection is
\* caught by that block's catch, which logs an error and answers errorBody
createLogInTry(rr, level, message, ok, errorMessage, errorStatus, errorBody, ok2) ==
  IF ok THEN [rr EXCEPT !.logs = Append(@, <<level, message>>)]
  ELSE createLog(Respond([rr EXCEPT !.logFailed = TRUE], errorStatus, FALSE, errorBody),
                 "error", errorMessage, ok2)

\* a route that posts without awaiting the generated reply
After_skipGenerate(step) ==
  CASE step = "ValidateConfig" -> "refresh"
    [] step = "RefreshToken" -> "fetch"
    [] step = "FetchCandidates" -> "rank"
    [] step = "FilterAndRank" -> "post"
    [] step = "GenerateReply" -> "post"
    [] step = "PostReply" -> "record"
    [] step = "RecordInteraction" -> "done"

\* the statement order of POST: where a run stands once a step has resolved
After(step) ==
  CASE step = "ValidateConfig" -> "refresh"
    [] step = "RefreshToken" -> "fetch"
    [] step = "FetchCandidates" -> "rank"
    [] step = "FilterAndRank" -> "generate"
    [] step = "GenerateReply" -> "post"
    [] step = "PostReply" -> "record"
    [] step = "RecordInteraction" -> "done"

\* history: the step that starts, the step whose call failed, an empty result
Step(rr, name) == [rr EXCEPT !.steps = Append(@, name)]
Fail(rr, name) == [rr EXCEPT !.failed = name]
Empty(rr) == [rr EXCEPT !.empty = TRUE]

NoClient == [pc |-> "none", cred |-> NoCred, result |-> NoTokenResult, calls |-> 0]

\* ------------------------------------------------------------------- Init
FullConfig ==
  [rapidApiKey |-> TRUE, search |-> "words", apiKey |-> TRUE, selectedModel |-> TRUE,
   minimum |-> NoMinimum]
EmptyConfig ==
  [rapidApiKey |-> FALSE, search |-> "null", apiKey |-> FALSE, selectedModel |-> FALSE,
   minimum |-> NoMinimum]

LongLived == FiveMinutes + 1

CredChoices ==
  { [accessToken |-> 1, refreshToken |-> 1, tokenExpiresAt |-> e] :
      e \in {NoExpiry, FiveMinutes, LongLived} }
  \cup { [accessToken |-> 1, refreshToken |-> Absent, tokenExpiresAt |-> LongLived] }

ConfigChoices(p) ==
  { [FullConfig EXCEPT !.apiKey = FALSE],
    [FullConfig EXCEPT !.selectedModel = FALSE],
    [FullConfig EXCEPT !.search = "null"] }
  \cup (IF p = "twitter"
          THEN { [FullConfig EXCEPT !.rapidApiKey = FALSE],
                 [FullConfig EXCEPT !.rapidApiKey = FALSE, !.selectedModel = FALSE] }
          ELSE { [FullConfig EXCEPT !.search = "blank"],
                 [FullConfig EXCEPT !.search = "commas"],
                 [FullConfig EXCEPT !.search = "null", !.apiKey = FALSE] })

\* one account is set up (credentials and settings vary), the other one is a
\* freshly created account with nothing connected
Setups(p) ==
  { [cred |-> c, cfg |-> FullConfig] : c \in CredChoices }
  \cup { [cred |-> [accessToken |-> 1, refreshToken |-> 1,
                    tokenExpiresAt |-> LongLived], cfg |-> k] :
           k \in ConfigChoices(p) }

Init ==
  /\ now = 0
  /\ \E f \in Accounts : \E s \in Setups(Platform(f)) :
       /\ creds = [a \in Accounts |-> IF a = f THEN s.cred ELSE NoCred]
       /\ config = [a \in Accounts |-> IF a = f THEN s.cfg ELSE EmptyConfig]
  /\ ledger = [a \in Accounts |-> <<>>]
  /\ posted = {}
  /\ nextToken = 2
  /\ started = 0
  /\ run = [r \in Runs |-> IdleRun]
  /\ client = NoClient

\* ------------------------------------------------------------ ValidateConfig
StartedLog(p) == IF p = "twitter" THEN "Pipeline started" ELSE "Starting Reddit pipeline"

\* POST: load the account, validate, log "Pipeline started"
StartRun(r, a) ==
  /\ run[r].pc \in {"idle", "done"}
  /\ r = "user" => run["cron"].pc # "idle"
  /\ started < MaxInvocations
  /\ started' = started + 1
  /\ \E ok \in BOOLEAN :
       LET rr0 == Step([IdleRun EXCEPT !.id = started + 1, !.acct = a, !.cred = creds[a]],
                       "ValidateConfig")
           missing == MissingField(Platform(a), creds[a], config[a])
       IN run' = [run EXCEPT ![r] =
            IF missing # ""
              THEN createLog(Respond(rr0, 400, FALSE, missing), "error", missing, ok)
              ELSE createLog([rr0 EXCEPT !.pc = After("ValidateConfig")], "info",
                             StartedLog(Platform(a)), ok)]
  /\ UNCHANGED <<now, creds, config, ledger, posted, nextToken, client>>

\* -------------------------------------------------------------- RefreshToken
AuthFailed(p) ==
  IF p = "twitter" THEN "Twitter authentication failed" ELSE "Failed to refresh token"
AuthFailedLog(p) ==
  IF p = "twitter" THEN "Failed to get valid access token" ELSE "Token refresh failed"

\* the run answers 401 after logging the failed refresh
RefreshFailed(rr, ok) ==
  createLog(Respond(Fail(rr, "RefreshToken"), 401, FALSE, AuthFailed(Platform(rr.acct))),
            "error", AuthFailedLog(Platform(rr.acct)), ok)

\* tokenResult.expiresAt !== redditCredentials.tokenExpiresAt compares Date
\* objects by identity: the Date loaded with the account or a new one
ExpiryChanged(tokenResult) == tokenResult.date # "loaded"

\* a Reddit route that leaves the refreshed token in memory only
MustPersist_twitterOnly(p, tokenResult, exchanged) == p = "twitter" /\ exchanged

\* a route that writes the credentials row back after every refresh step
MustPersist_always(p, tokenResult, exchanged) == TRUE

\* is a credentials update issued?  Twitter: inside refreshTokenIfNeeded, after
\* every exchange; Reddit: in the route, when the expiry Date changed
MustPersist(p, tokenResult, exchanged) ==
  IF p = "twitter" THEN exchanged ELSE ExpiryChanged(tokenResult)

\* refreshTokenIfNeeded up to the end of the token-endpoint exchange
RefreshToken(r) ==
  /\ run[r].pc = "refresh"
  /\ LET rr == Step(run[r], "RefreshToken")
         c == rr.cred
         d == RefreshDecision(c, now)
     IN \E netOk \in BOOLEAN, ok \in BOOLEAN :
          CASE d = "null" ->
                 /\ run' = [run EXCEPT ![r] = RefreshFailed(rr, ok)]
                 /\ UNCHANGED nextToken
            [] d = "existing" ->
                 /\ run' = [run EXCEPT ![r] =
                      LET tr == ExistingToken(c)
                      IN [rr EXCEPT !.pc = IF MustPersist(Platform(rr.acct), tr, FALSE)
                                             THEN "persist" ELSE After("RefreshToken"),
                                    !.accessToken = c.accessToken,
                                    !.tokenResult = tr]]
                 /\ UNCHANGED nextToken
            [] d = "exchange" ->
                 LET rc == [rr EXCEPT !.calls.token = @ + 1]
                 IN IF netOk
                      THEN /\ run' = [run EXCEPT ![r] =
                                LET tr == IssuedToken(Platform(rr.acct), c, nextToken, now)
                                IN [rc EXCEPT !.pc = IF MustPersist(Platform(rr.acct), tr, TRUE)
                                                       THEN "persist" ELSE After("RefreshToken"),
                                              !.accessToken = tr.accessToken,
                                              !.tokenResult = tr]]
                           /\ nextToken' = nextToken + 1
                      ELSE /\ run' = [run EXCEPT ![r] = RefreshFailed(rc, ok)]
                           /\ UNCHANGED nextToken
  /\ UNCHANGED <<now, creds, config, ledger, posted, started, client>>

\* the credentials update that follows a token exchange
PersistToken(r) ==
  /\ run[r].pc = "persist"
  /\ LET rr == run[r]
         tr == rr.tokenResult
     IN \E dbOk \in BOOLEAN, ok \in BOOLEAN :
          IF dbOk
            THEN /\ creds' = [creds EXCEPT ![rr.acct] =
                       [accessToken |-> tr.accessToken,
                        refreshToken |-> tr.refreshToken,
                        tokenExpiresAt |-> tr.expiresAt]]
                 /\ run' = [run EXCEPT ![r] =
                       [rr EXCEPT !.pc = After("RefreshToken"), !.writes.cred = @ + 1]]
            ELSE /\ run' = [run EXCEPT ![r] = RefreshFailed(rr, ok)]
                 /\ UNCHANGED creds
  /\ UNCHANGED <<now, config, ledger, posted, nextToken, started, client>>

\* ----------------------------------------------------------- FetchCandidates
RECURSIVE SetToSeq(_)
\* the items of S in the order the search API lists them
SetToSeq(S) ==
  IF S = {} THEN <<>>
  ELSE LET m == CHOOSE x \in S : \A y \in S : x <= y
       IN <<m>> \o SetToSeq(S \ {m})

RECURSIVE Filter(_, _)
\* Array.prototype.filter with the predicate "is in Keep"
Filter(seq, Keep) ==
  IF seq = <<>> THEN <<>>
  ELSE (IF Head(seq) \in Keep THEN <<Head(seq)>> ELSE <<>>) \o Filter(Tail(seq), Keep)

\* searchPosts: an all-empty keyword list makes no request
SearchNeedsRequest(cfg) == cfg.search # "commas"

FetchFailed(p) == IF p = "twitter" THEN "RapidAPI error" ELSE "Failed to search posts"

\* tweets.filter((t) => t.hearts >= minimumLikesCount)
AboveMinimumLikes(cfg) == {i \in Content : Score(i) >= MinimumLikes(cfg)}

\* the fetch step of the Twitter run, given whether the "Searching" log was
\* written (ok1) and whether fetchTweetsFromRapidAPI returned (netOk)
FetchTweetsOutcome(r, ok1, netOk) ==
     LET rr == Step(run[r], "FetchCandidates")
         cfg == config[rr.acct]
     IN \E S \in SUBSET Items, ok2 \in BOOLEAN :
          run' = [run EXCEPT ![r] =
            IF ~ok1 THEN createLog(rr, "info", "Searching", FALSE)
            ELSE LET r1 == [createLog(rr, "info", "Searching", TRUE)
                              EXCEPT !.calls.fetch = @ + 1]
                     tweets == Filter(SetToSeq(S), AboveMinimumLikes(cfg))
                 IN IF ~netOk
                      THEN createLog(Respond(Fail(r1, "FetchCandidates"), 500, FALSE,
                                             FetchFailed("twitter")),
                                     "error", FetchFailed("twitter"), ok2)
                    ELSE IF tweets = <<>>
                      THEN createLog(Respond(Empty(r1), 200, FALSE, ""),
                                     "warning", "No tweets found", ok2)
                    ELSE createLog([r1 EXCEPT !.pc = After("FetchCandidates"), !.tweets = tweets],
                                   "info", "Found tweets", ok2)]

\* Twitter: log, fetchTweetsFromRapidAPI, client-side likes filter, empty check
FetchTweets(r) ==
  /\ run[r].pc = "fetch"
  /\ Platform(run[r].acct) = "twitter"
  /\ \E ok1 \in BOOLEAN, netOk \in BOOLEAN : FetchTweetsOutcome(r, ok1, netOk)
  /\ UNCHANGED <<now, creds, config, ledger, posted, nextToken, started, client>>

\* Reddit: searchPosts and the "Found N posts" log, both inside one try block
SearchPosts(r) ==
  /\ run[r].pc = "fetch"
  /\ Platform(run[r].acct) = "reddit"
  /\ LET rr == Step(run[r], "FetchCandidates")
         cfg == config[rr.acct]
     IN \E netOk \in BOOLEAN, S \in SUBSET Items, ok1 \in BOOLEAN, ok2 \in BOOLEAN :
          run' = [run EXCEPT ![r] =
            LET request == SearchNeedsRequest(cfg)
                r1 == IF request THEN [rr EXCEPT !.calls.fetch = @ + 1] ELSE rr
                posts == IF request THEN SetToSeq(S) ELSE <<>>
            IN IF request /\ ~netOk
                 THEN createLog(Respond(Fail(r1, "FetchCandidates"), 500, FALSE,
                                        FetchFailed("reddit")),
                                "error", FetchFailed("reddit"), ok2)
                 ELSE createLogInTry([r1 EXCEPT !.pc = After("FetchCandidates"), !.tweets = posts,
                                                !.empty = (posts = <<>>)],
                                     "info", "Found posts", ok1,
                                     FetchFailed("reddit"), 500, FetchFailed("reddit"), ok2)]
  /\ UNCHANGED <<now, creds, config, ledger, posted, nextToken, started, client>>

\* ------------------------------------------------------------- FilterAndRank
\* ids of the ledger rows that count as "already replied"
\* Twitter: existingInteractions.filter((i) => i.ourReply); Reddit: every row
RepliedIds(p, rows) ==
  IF p = "twitter"
    THEN {rows[k].id : k \in {j \in 1..Len(rows) : rows[j].ourReply # 0}}
    ELSE {rows[k].id : k \in 1..Len(rows)}

\* the filter of FilterAndRank
Eligible(p, cfg, replied) ==
  IF p = "twitter"
    THEN {i \in Content : i \notin replied}
    ELSE {i \in Content : /\ i \notin replied
                        /\ Score(i) >= MinimumUpvotes(cfg)
                        /\ Author(i) # OwnUsername
                        /\ Author(i) # "[deleted]"}

\* a comparator that orders tweets by likes alone
Before_likesOnly(p, a, b) == Score(a) > Score(b)

\* the comparator: does a sort strictly before b?
Before(p, a, b) ==
  IF p = "twitter"
    THEN Score(a) > Score(b) \/ (Score(a) = Score(b) /\ Replies(a) < Replies(b))
    ELSE Score(a) > Score(b)

RECURSIVE Insert(_, _, _)
\* x goes before the first element it sorts strictly before (a stable sort)
Insert(p, x, sorted) ==
  IF sorted = <<>> THEN <<x>>
  ELSE IF Before(p, x, Head(sorted)) THEN <<x>> \o sorted
  ELSE <<Head(sorted)>> \o Insert(p, x, Tail(sorted))

RECURSIVE SortCandidates(_, _)
\* Array.prototype.sort with the comparator of the route
SortCandidates(p, seq) ==
  IF seq = <<>> THEN <<>>
  ELSE Insert(p, seq[Len(seq)], SortCandidates(p, SubSeq(seq, 1, Len(seq) - 1)))

NoneLeftLevel(p) == IF p = "twitter" THEN "warning" ELSE "info"

\* findMany on the interaction rows, filter, empty check, sort, pick, log
FilterAndRank(r) ==
  /\ run[r].pc = "rank"
  /\ LET rr == Step(run[r], "FilterAndRank")
         p == Platform(rr.acct)
         cfg == config[rr.acct]
     IN \E dbOk \in BOOLEAN, ok \in BOOLEAN :
          run' = [run EXCEPT ![r] =
            IF ~dbOk THEN Crash(Fail(rr, "FilterAndRank"))
            ELSE LET left == Filter(rr.tweets,
                                    Eligible(p, cfg, RepliedIds(p, ledger[rr.acct])))
                     sorted == SortCandidates(p, left)
                 IN IF left = <<>>
                      THEN createLog(Respond(Empty(rr), 200, FALSE, ""),
                                     NoneLeftLevel(p), "No eligible items", ok)
                      ELSE createLog([rr EXCEPT !.pc = After("FilterAndRank"), !.tweets = <<>>,
                                                !.target = sorted[1],
                                                !.twentyFourHoursAgo = now - OneDay],
                                     "info", "Selected", ok)]
  /\ UNCHANGED <<now, creds, config, ledger, posted, nextToken, started, client>>

\* ------------------------------------------------------------- GenerateReply
GenerateFailed(p) ==
  IF p = "twitter" THEN "OpenRouter error" ELSE "Failed to generate reply"

\* generateReplyWithLLM / generateReply and the "Generated reply" log
GenerateReply(r) ==
  /\ run[r].pc = "generate"
  /\ LET rr == [Step(run[r], "GenerateReply") EXCEPT !.calls.llm = @ + 1]
         p == Platform(rr.acct)
     IN \E netOk \in BOOLEAN, ok1 \in BOOLEAN, ok2 \in BOOLEAN :
          run' = [run EXCEPT ![r] =
            IF ~netOk
              THEN createLog(Respond(Fail(rr, "GenerateReply"), 500, FALSE, GenerateFailed(p)),
                             "error", "LLM error", ok2)
            ELSE LET r1 == [rr EXCEPT !.pc = After("GenerateReply"), !.reply = rr.id]
                 IN IF p = "twitter"
                      THEN createLog(r1, "info", "Generated reply", ok1)
                      ELSE createLogInTry(r1, "info", "Generated reply", ok1,
                                          "LLM error", 500, GenerateFailed(p), ok2)]
  /\ UNCHANGED <<now, creds, config, ledger, posted, nextToken, started, client>>

\* ----------------------------------------------------------------- PostReply
PostFailed(p) ==
  IF p = "twitter" THEN "Twitter API error" ELSE "Failed to post comment"

\* the try block around the post and what follows it: the call resolved or
\* threw, and the platform accepted the reply (delivered) or did not
PostReplyOutcome(r, resolved, delivered) ==
  LET rr == [Step(run[r], "PostReply") EXCEPT !.calls.post = @ + 1]
      p == Platform(rr.acct)
  IN \E ok1 \in BOOLEAN, ok2 \in BOOLEAN :
       /\ posted' =
            IF delivered
              THEN posted \cup {[acct |-> rr.acct, item |-> rr.target,
                                 run |-> rr.id, text |-> rr.reply]}
              ELSE posted
       /\ run' = [run EXCEPT ![r] =
            IF ~resolved
              THEN createLog(Respond(Fail(rr, "PostReply"), 500, FALSE, PostFailed(p)),
                             "error", PostFailed(p), ok2)
              ELSE LET r1 == [rr EXCEPT !.pc = After("PostReply")]
                   IN IF p = "twitter"
                        THEN createLog(r1, "success", "Posted reply", ok1)
                        ELSE createLogInTry(r1, "success", "Posted comment", ok1,
                                            PostFailed(p), 500, PostFailed(p), ok2)]

\* twitterClient.v2.tweet / postComment and the success log
PostReply(r) ==
  /\ run[r].pc = "post"
  /\ \E netOk \in BOOLEAN : PostReplyOutcome(r, netOk, netOk)
  /\ UNCHANGED <<now, creds, config, ledger, nextToken, started, client>>

\* --------------------------------------------------------- RecordInteraction
\* interaction.upsert on (accountId, id)
Upsert(rows, id, reply, t) ==
  IF \E k \in 1..Len(rows) : rows[k].id = id
    THEN [k \in 1..Len(rows) |->
            IF rows[k].id = id THEN [rows[k] EXCEPT !.ourReply = reply] ELSE rows[k]]
    ELSE Append(rows, [id |-> id, ourReply |-> reply, createdAt |-> t])

RECURSIVE DropRows(_, _)
\* rows without those whose index is in Gone
DropRows(rows, Gone) ==
  IF rows = <<>> THEN <<>>
  ELSE DropRows(SubSeq(rows, 1, Len(rows) - 1), Gone)
         \o (IF Len(rows) \in Gone THEN <<>> ELSE <<rows[Len(rows)]>>)

\* a cleanup that deletes every old row of the account, replied or not
Cleanup_anyOld(p, rows, twentyFourHoursAgo) ==
  DropRows(rows, {k \in 1..Len(rows) : rows[k].createdAt < twentyFourHoursAgo})

\* the cleanup after the upsert.  Twitter: deleteMany of rows without a reply
\* created before twentyFourHoursAgo; Reddit: all but the KeepLast newest rows
Cleanup(p, rows, twentyFourHoursAgo) ==
  IF p = "twitter"
    THEN DropRows(rows, {k \in 1..Len(rows) :
                           rows[k].ourReply = 0 /\ rows[k].createdAt < twentyFourHoursAgo})
    ELSE DropRows(rows, {k \in 1..Len(rows) : k <= Len(rows) - KeepLast})

\* the try block that stores the interaction, its catch, and the final response
RecordInteraction(r) ==
  /\ run[r].pc = "record"
  /\ LET rr == Step(run[r], "RecordInteraction")
         p == Platform(rr.acct)
         upserted == Upsert(ledger[rr.acct], rr.target, rr.reply, now)
     IN \E upsertOk \in BOOLEAN, cleanupOk \in BOOLEAN, ok \in BOOLEAN :
          /\ ledger' = [ledger EXCEPT ![rr.acct] =
               IF ~upsertOk THEN @
               ELSE IF ~cleanupOk THEN upserted
               ELSE Cleanup(p, upserted, rr.twentyFourHoursAgo)]
          /\ run' = [run EXCEPT ![r] =
               LET r1 == IF upsertOk THEN [rr EXCEPT !.writes.ledger = @ + 1] ELSE rr
               IN IF upsertOk /\ cleanupOk
                    THEN Respond(r1, 200, TRUE, "")
                    ELSE createLog(Respond(Fail(r1, "RecordInteraction"), 200, TRUE, ""),
                                   "warning", "Posted but failed to record", ok)]
  /\ UNCHANGED <<now, creds, config, posted, nextToken, started, client>>

Next ==
  \/ \E r \in Runs, a \in Accounts : StartRun(r, a)
  \/ \E r \in Runs : RefreshToken(r)
  \/ \E r \in Runs : PersistToken(r)
  \/ \E r \in Runs : FetchTweets(r)
  \/ \E r \in Runs : SearchPosts(r)
  \/ \E r \in Runs : FilterAndRank(r)
  \/ \E r \in Runs : GenerateReply(r)
  \/ \E r \in Runs : PostReply(r)
  \/ \E r \in Runs : RecordInteraction(r)

Spec == Init /\ [][Next]_vars

\* ------------------------------- refreshTokenIfNeeded of the Reddit client
\* credentials a caller can pass, around the five-minute margin
ClientInputs ==
  { [accessToken |-> a, refreshToken |-> f, tokenExpiresAt |-> e] :
      a \in {Absent, 1}, f \in {Absent, 1},
      e \in {NoExpiry} \cup 0..(FiveMinutes + MaxTime + 1) }

InitClient ==
  /\ now \in 0..MaxTime
  /\ creds = [a \in Accounts |-> NoCred]
  /\ config = [a \in Accounts |-> EmptyConfig]
  /\ ledger = [a \in Accounts |-> <<>>]
  /\ posted = {}
  /\ nextToken = 2
  /\ started = 0
  /\ run = [r \in Runs |-> IdleRun]
  /\ \E c \in ClientInputs :
       client = [pc |-> "called", cred |-> c, result |-> NoTokenResult, calls |-> 0]

\* the two early returns, or the fetch of the token endpoint
ClientDecide ==
  /\ client.pc = "called"
  /\ LET d == RefreshDecision(client.cred, now)
     IN client' =
          CASE d = "null" -> [client EXCEPT !.pc = "returned null"]
            [] d = "existing" ->
                 [client EXCEPT !.pc = "returned", !.result = ExistingToken(client.cred)]
            [] d = "exchange" ->
                 [client EXCEPT !.pc = "exchange", !.calls = @ + 1]
  /\ UNCHANGED <<now, creds, config, ledger, posted, nextToken, started, run>>

\* the token endpoint answers: response.ok, or not (the function throws)
ClientExchange ==
  /\ client.pc = "exchange"
  /\ \E netOk \in BOOLEAN :
       IF netOk
         THEN /\ client' = [client EXCEPT !.pc = "returned",
                     !.result = IssuedToken("reddit", client.cred, nextToken, now)]
              /\ nextToken' = nextToken + 1
         ELSE /\ client' = [client EXCEPT !.pc = "thrown"]
              /\ UNCHANGED nextToken
  /\ UNCHANGED <<now, creds, config, ledger, posted, started, run>>

NextClient == ClientDecide \/ ClientExchange

SpecClient == InitClient /\ [][NextClient]_vars

\* ------------------------------------------ candidate selection of the routes
\* thresholds an account can configure: none, zero, low, high
Thresholds == {NoMinimum, 0, 5, 30}

\* interaction rows of the items an account replied to earlier
RepliedRows(L) ==
  LET seq == SetToSeq(L)
  IN [k \in 1..Len(seq) |-> [id |-> seq[k], ourReply |-> 1, createdAt |-> 0]]

\* the list a route filters: the Twitter route first drops tweets below
\* minimumLikesCount, the Reddit route takes the search result as it is
Candidates(p, cfg, found) ==
  IF p = "twitter" THEN Filter(found, AboveMinimumLikes(cfg)) ELSE found

InitSelect ==
  /\ now = 0
  /\ creds = [a \in Accounts |-> NoCred]
  /\ posted = {}
  /\ nextToken = 2
  /\ started = 0
  /\ run = [r \in Runs |-> IdleRun]
  /\ \E f \in Accounts, m \in Thresholds, S \in SUBSET Content, L \in SUBSET Items :
       /\ config = [a \in Accounts |->
                      IF a = f THEN [FullConfig EXCEPT !.minimum = m] ELSE EmptyConfig]
       /\ ledger = [a \in Accounts |-> IF a = f THEN RepliedRows(L) ELSE <<>>]
       /\ client = [pc |-> "fetched", acct |-> f, found |-> SetToSeq(S),
                    eligible |-> <<>>, selected |-> 0]

\* unrepliedTweets / eligiblePosts
SelectFilter ==
  /\ client.pc = "fetched"
  /\ LET p == Platform(client.acct)
         cfg == config[client.acct]
     IN client' = [client EXCEPT
          !.pc = "filtered",
          !.eligible = Filter(Candidates(p, cfg, client.found),
                              Eligible(p, cfg, RepliedIds(p, ledger[client.acct])))]
  /\ UNCHANGED <<now, creds, config, ledger, posted, nextToken, started, run>>

\* the empty check, the sort and bestTweet / targetPost
SelectPick ==
  /\ client.pc = "filtered"
  /\ client' =
       IF client.eligible = <<>> THEN [client EXCEPT !.pc = "none left"]
       ELSE [client EXCEPT
               !.pc = "picked",
               !.selected = SortCandidates(Platform(client.acct), client.eligible)[1]]
  /\ UNCHANGED <<now, creds, config, ledger, posted, nextToken, started, run>>

NextSelect == SelectFilter \/ SelectPick

SpecSelect == InitSelect /\ [][NextSelect]_vars

\* ------------------------------------------- the ledger of a long-lived account
\* the rows of an account that replied to items 1..n, one after the other
LedgerOf(n) ==
  [k \in 1..n |-> [id |-> k, ourReply |-> 1, createdAt |-> k - (KeepLast + 2)]]

InitLedger ==
  /\ now = 0
  /\ posted = {}
  /\ nextToken = 2
  /\ started = 0
  /\ run = [r \in Runs |-> IdleRun]
  /\ client = NoClient
  /\ \E f \in Accounts, n \in (KeepLast - 1)..(KeepLast + 1) :
       /\ creds = [a \in Accounts |->
                     IF a = f THEN [accessToken |-> 1, refreshToken |-> 1,
                                    tokenExpiresAt |-> LongLived]
                     ELSE NoCred]
       /\ config = [a \in Accounts |-> IF a = f THEN FullConfig ELSE EmptyConfig]
       /\ ledger = [a \in Accounts |-> IF a = f THEN LedgerOf(n) ELSE <<>>]

\* a run of the connected account that went through every step up to the
\* post: it replied to an item the account never replied to
PostedNewItem(r) ==
  /\ run[r].pc \in {"idle", "done"}
  /\ started < MaxInvocations
  /\ \E a \in Accounts :
       /\ ledger[a] # <<>>
       /\ LET rr == [IdleRun EXCEPT
                       !.pc = After("PostReply"), !.id = started + 1, !.acct = a,
                       !.cred = creds[a], !.accessToken = creds[a].accessToken,
                       !.target = KeepLast + 2 + started, !.reply = started + 1,
                       !.steps = <<"ValidateConfig", "RefreshToken", "FetchCandidates",
                                   "FilterAndRank", "GenerateReply", "PostReply">>,
                       !.calls = [token |-> 0, fetch |-> 1, llm |-> 1, post |-> 1],
                       !.twentyFourHoursAgo = now - OneDay]
          IN /\ run' = [run EXCEPT ![r] = rr]
             /\ posted' = posted \cup
                  {[acct |-> a, item |-> rr.target, run |-> rr.id, text |-> rr.reply]}
  /\ started' = started + 1
  /\ now' = now + 1
  /\ UNCHANGED <<creds, config, ledger, nextToken, client>>

NextLedger ==
  \/ \E r \in Runs : PostedNewItem(r)
  \/ \E r \in Runs : RecordInteraction(r)

SpecLedger == InitLedger /\ [][NextLedger]_vars

\* ------------------------------------------- postComment of the Reddit client
\* the links of data?.json?.data?.things?.[0]?.data?.name
PathLen == 6

\* responses of POST /api/comment: response.ok, the error text of a failure,
\* whether the body parses as JSON, how many links of the path to the comment
\* name the body holds, and the name found at its end
CommentResponses ==
  { [ok |-> FALSE, text |-> t, json |-> FALSE, links |-> 0, name |-> ""] :
      t \in {"Rate limited", ""} }
  \cup { [ok |-> TRUE, text |-> "", json |-> FALSE, links |-> 0, name |-> ""] }
  \cup { [ok |-> TRUE, text |-> "", json |-> TRUE, links |-> d, name |-> ""] :
           d \in 0..PathLen }
  \cup { [ok |-> TRUE, text |-> "", json |-> TRUE, links |-> PathLen,
          name |-> "t1_comment123"] }

\* postComment: throw on !response.ok, await response.json() (which rejects
\* when the body is no JSON), then commentData?.name || "unknown"
postComment(response) ==
  IF ~response.ok
    THEN [outcome |-> "thrown", value |-> "Failed to post comment: " \o response.text]
  ELSE IF ~response.json
    THEN [outcome |-> "thrown", value |-> "SyntaxError"]
  ELSE [outcome |-> "returned",
        value |-> IF response.links = PathLen /\ response.name # ""
                    THEN response.name ELSE "unknown"]

\* a Reddit run that has generated its reply and calls postComment
InitComment ==
  /\ now = 0
  /\ creds = [a \in Accounts |->
                IF a = "rd" THEN [accessToken |-> 1, refreshToken |-> 1,
                                  tokenExpiresAt |-> LongLived]
                ELSE NoCred]
  /\ config = [a \in Accounts |-> IF a = "rd" THEN FullConfig ELSE EmptyConfig]
  /\ ledger = [a \in Accounts |-> <<>>]
  /\ posted = {}
  /\ nextToken = 2
  /\ started = 1
  /\ \E r0 \in Runs :
       run = [r \in Runs |->
                IF r = r0
                  THEN [IdleRun EXCEPT
                          !.pc = After("GenerateReply"), !.id = 1, !.acct = "rd",
                          !.cred = creds["rd"], !.accessToken = 1,
                          !.target = 1, !.reply = 1,
                          !.steps = <<"ValidateConfig", "RefreshToken", "FetchCandidates",
                                      "FilterAndRank", "GenerateReply">>,
                          !.calls = [token |-> 0, fetch |-> 1, llm |-> 1, post |-> 0]]
                  ELSE IdleRun]
  /\ \E response \in CommentResponses :
       client = [pc |-> "called", response |-> response, outcome |-> "none", value |-> ""]

\* postComment settles
CommentCall ==
  /\ client.pc = "called"
  /\ LET out == postComment(client.response)
     IN client' = [client EXCEPT !.pc = "settled", !.outcome = out.outcome,
                                 !.value = out.value]
  /\ UNCHANGED <<now, creds, config, ledger, posted, nextToken, started, run>>

\* the route's try block receives what postComment returned or threw
CommentReturn(r) ==
  /\ client.pc = "settled"
  /\ run[r].pc = "post"
  /\ PostReplyOutcome(r, client.outcome = "returned", client.response.ok)
  /\ client' = [client EXCEPT !.pc = "used"]
  /\ UNCHANGED <<now, creds, config, ledger, nextToken, started>>

NextComment ==
  \/ CommentCall
  \/ \E r \in Runs : CommentReturn(r)
  \/ \E r \in Runs : RecordInteraction(r)

SpecComment == InitComment /\ [][NextComment]_vars

\* ------------------------------------------- searchPosts of the Reddit client
\* a string is a sequence of characters
KeywordChars == {"a", "b", " ", ","}

RECURSIVE Strings(_)
\* the strings of at most n characters
Strings(n) ==
  IF n = 0 THEN {<<>>}
  ELSE LET shorter == Strings(n - 1)
       IN shorter \cup {Append(w, c) : w \in shorter, c \in KeywordChars}

RECURSIVE SplitFrom(_, _)
\* the segments of rest, the open segment being cur
SplitFrom(rest, cur) ==
  IF rest = <<>> THEN <<cur>>
  ELSE IF Head(rest) = "," THEN <<cur>> \o SplitFrom(Tail(rest), <<>>)
  ELSE SplitFrom(Tail(rest), Append(cur, Head(rest)))

\* keywords.split(",")
Split(str) == SplitFrom(str, <<>>)

RECURSIVE TrimStart(_)
TrimStart(str) ==
  IF str # <<>> /\ Head(str) = " " THEN TrimStart(Tail(str)) ELSE str

RECURSIVE TrimEnd(_)
TrimEnd(str) ==
  IF str # <<>> /\ str[Len(str)] = " " THEN TrimEnd(SubSeq(str, 1, Len(str) - 1)) ELSE str

\* a map step that leaves the entries as they are
Trim_none(str) == str

\* k.trim()
Trim(str) == TrimEnd(TrimStart(str))

RECURSIVE TrimAll(_)
\* .map((k) => k.trim())
TrimAll(list) ==
  IF list = <<>> THEN <<>> ELSE <<Trim(Head(list))>> \o TrimAll(Tail(list))

RECURSIVE NonEmpty(_)
\* .filter((k) => k.length > 0)
NonEmpty(list) ==
  IF list = <<>> THEN <<>>
  ELSE (IF Len(Head(list)) > 0 THEN <<Head(list)>> ELSE <<>>) \o NonEmpty(Tail(list))

\* keywordList
KeywordList(keywords) == NonEmpty(TrimAll(Split(keywords)))

RECURSIVE Join(_, _)
\* keywordList.join(sep)
Join(list, sep) ==
  IF list = <<>> THEN <<>>
  ELSE IF Len(list) = 1 THEN list[1]
  ELSE list[1] \o sep \o Join(Tail(list), sep)

OrSeparator == <<" ", "O", "R", " ">>

InitSearch ==
  /\ now = 0
  /\ creds = [a \in Accounts |-> NoCred]
  /\ config = [a \in Accounts |-> EmptyConfig]
  /\ ledger = [a \in Accounts |-> <<>>]
  /\ posted = {}
  /\ nextToken = 2
  /\ started = 0
  /\ run = [r \in Runs |-> IdleRun]
  /\ \E keywords \in Strings(MaxKeywordLen) :
       client = [pc |-> "called", keywords |-> keywords, calls |-> 0, query |-> <<>>,
                 posts |-> <<>>]

\* searchPosts up to the early return or the fetch of /search
SearchCall ==
  /\ client.pc = "called"
  /\ LET keywordList == KeywordList(client.keywords)
     IN client' =
          IF Len(keywordList) = 0 THEN [client EXCEPT !.pc = "returned"]
          ELSE [client EXCEPT !.pc = "requested", !.calls = @ + 1,
                              !.query = Join(keywordList, OrSeparator)]
  /\ UNCHANGED <<now, creds, config, ledger, posted, nextToken, started, run>>

\* the search answers: response.ok with the posts, or not (searchPosts throws)
SearchAnswer ==
  /\ client.pc = "requested"
  /\ \E netOk \in BOOLEAN, S \in SUBSET Items :
       client' = IF netOk THEN [client EXCEPT !.pc = "returned", !.posts = SetToSeq(S)]
                 ELSE [client EXCEPT !.pc = "thrown"]
  /\ UNCHANGED <<now, creds, config, ledger, posted, nextToken, started, run>>

NextSearch == SearchCall \/ SearchAnswer

SpecSearch == InitSearch /\ [][NextSearch]_vars

\* ---------------------------------------------------- the reply generators
\* generateReply of the Reddit client, generateReplyWithLLM of the Twitter
\* route, and the earlier generateReplyWithLLM kept in the same file
Generators == {"reddit", "twitter", "twitter_v1"}

TwitterMaxLength == 280
RedditMaxLength == 500
MaxLength(gen) == IF gen = "reddit" THEN RedditMaxLength ELSE TwitterMaxLength

\* the generators that clean the content up when no reasoning field came
CleansUp(gen) == gen \in {"reddit", "twitter_v1"}

\* LLM content in run-length form: a sequence of pieces <<c, n>>, n times the
\* character c; the piece <<"Let me", n>> is the first n characters of that
\* opener phrase
Opener == "Let me"
OpenerLength == 6
Quote == "\""
Pieces ==
  {<<"x", n>> : n \in {1, TwitterMaxLength, RedditMaxLength}}
  \cup {<<Quote, 1>>, <<" ", 1>>, <<".", 1>>, <<Opener, OpenerLength>>}

RECURSIVE Contents(_)
\* the contents of at most n pieces
Contents(n) ==
  IF n = 0 THEN {<<>>}
  ELSE LET shorter == Contents(n - 1)
       IN shorter \cup {Append(w, c) : w \in shorter, c \in Pieces}

RECURSIVE Length(_)
\* str.length
Length(str) == IF str = <<>> THEN 0 ELSE Head(str)[2] + Length(Tail(str))

RECURSIVE DropLeadingBlanks(_)
DropLeadingBlanks(str) ==
  IF str # <<>> /\ Head(str)[1] = " " THEN DropLeadingBlanks(Tail(str)) ELSE str

RECURSIVE DropTrailingBlanks(_)
DropTrailingBlanks(str) ==
  IF str # <<>> /\ str[Len(str)][1] = " "
    THEN DropTrailingBlanks(SubSeq(str, 1, Len(str) - 1))
    ELSE str

\* str.trim()
TrimContent(str) == DropTrailingBlanks(DropLeadingBlanks(str))

\* str without the first character of its first piece
DropFirstChar(str) ==
  IF Head(str)[2] > 1 THEN <<<<Head(str)[1], Head(str)[2] - 1>>>> \o Tail(str)
  ELSE Tail(str)

\* str without the last character of its last piece
DropLastChar(str) ==
  LET last == str[Len(str)]
  IN IF last[2] > 1 THEN SubSeq(str, 1, Len(str) - 1) \o <<<<last[1], last[2] - 1>>>>
     ELSE SubSeq(str, 1, Len(str) - 1)

\* reply.replace(/^(...|Let me|...).*?[.!]\s*/i, ""): an opener at the start,
\* everything up to the first full stop, and the blanks after it
StripOpener(str) ==
  IF str # <<>> /\ Head(str) = <<Opener, OpenerLength>>
       /\ \E k \in 2..Len(str) : str[k][1] = "."
    THEN LET k == CHOOSE i \in 2..Len(str) :
                    str[i][1] = "." /\ \A j \in 2..(i - 1) : str[j][1] # "."
             rest == DropFirstChar(SubSeq(str, k, Len(str)))
         IN IF str[k][2] > 1 THEN rest ELSE DropLeadingBlanks(rest)
    ELSE str

\* reply.replace(/^["']|["']$/g, ""): one quote at the start, one at the end
StripQuotes(str) ==
  LET s1 == IF str # <<>> /\ Head(str)[1] = Quote THEN DropFirstChar(str) ELSE str
  IN IF s1 # <<>> /\ s1[Len(s1)][1] = Quote THEN DropLastChar(s1) ELSE s1

\* a return statement without the final slice
Slice_none(str, n) == str

RECURSIVE Slice(_, _)
\* str.slice(0, n)
Slice(str, n) ==
  IF str = <<>> \/ n <= 0 THEN <<>>
  ELSE IF Head(str)[2] <= n THEN <<Head(str)>> \o Slice(Tail(str), n - Head(str)[2])
  ELSE <<<<Head(str)[1], n>>>>

\* the generator from message.content on: trim, empty check, the clean-up
\* when there is no reasoning field, the final slice
Generate(gen, content, hasReasoningField) ==
  LET reply == TrimContent(content)
  IN IF reply = <<>>
       THEN [outcome |-> "thrown", reply |-> <<>>]
       ELSE [outcome |-> "returned",
             reply |-> Slice(IF CleansUp(gen) /\ ~hasReasoningField
                               THEN TrimContent(StripQuotes(TrimContent(StripOpener(reply))))
                               ELSE reply,
                             MaxLength(gen))]

InitGenerate ==
  /\ now = 0
  /\ creds = [a \in Accounts |-> NoCred]
  /\ config = [a \in Accounts |-> EmptyConfig]
  /\ ledger = [a \in Accounts |-> <<>>]
  /\ posted = {}
  /\ nextToken = 2
  /\ started = 0
  /\ run = [r \in Runs |-> IdleRun]
  /\ \E gen \in Generators, content \in Contents(MaxPieces), reasoning \in BOOLEAN :
       client = [pc |-> "called", gen |-> gen, content |-> content,
                 reasoning |-> reasoning, outcome |-> "none", reply |-> <<>>,
                 sent |-> FALSE]

\* the generator returns or throws
GenerateCall ==
  /\ client.pc = "called"
  /\ LET out == Generate(client.gen, client.content, client.reasoning)
     IN client' = [client EXCEPT !.pc = "settled", !.outcome = out.outcome,
                                 !.reply = out.reply]
  /\ UNCHANGED <<now, creds, config, ledger, posted, nextToken, started, run>>

\* the route: the catch answers 500, otherwise the returned text is posted
GenerateSettle ==
  /\ client.pc = "settled"
  /\ client' = [client EXCEPT !.pc = "done", !.sent = (client.outcome = "returned")]
  /\ UNCHANGED <<now, creds, config, ledger, posted, nextToken, started, run>>

NextGenerate == GenerateCall \/ GenerateSettle

SpecGenerate == InitGenerate /\ [][NextGenerate]_vars

\* ------------------------------------------------------- the rate limiters
\* twitterLimiter as the module constructs it: a full reservoir, no job
\* scheduled yet; there is no limiter for Reddit
TwitterReservoir == 15
NewLimiter == [reservoir |-> TwitterReservoir, done |-> 0]

\* the pipeline next to the limiter object; no handler of the run routes
\* imports the limiter module, so every action leaves the limiter alone
InitLimiter ==
  /\ now = 0
  /\ \E f \in Accounts : \E s \in Setups(Platform(f)) :
       /\ creds = [a \in Accounts |-> IF a = f THEN s.cred ELSE NoCred]
       /\ config = [a \in Accounts |-> IF a = f THEN s.cfg ELSE EmptyConfig]
  /\ ledger = [a \in Accounts |-> <<>>]
  /\ posted = {}
  /\ nextToken = 2
  /\ started = 0
  /\ run = [r \in Runs |-> IdleRun]
  /\ client = NewLimiter

SpecLimiter == InitLimiter /\ [][Next]_vars

\* ------------------------------------------- a limiter under schedule calls
\* the options the limiters are constructed with
Limiters == {"twitter", "youtube", "instagram"}
ReservoirAmount(l) ==
  IF l = "twitter" THEN TwitterReservoir ELSE IF l = "youtube" THEN 100 ELSE 200
MaxConcurrent(l) == IF l = "youtube" THEN 2 ELSE 1

\* nothing of the pipeline moves while one limiter is exercised
PipelineAtRest ==
  /\ now = 0
  /\ creds = [a \in Accounts |-> NoCred]
  /\ config = [a \in Accounts |-> EmptyConfig]
  /\ ledger = [a \in Accounts |-> <<>>]
  /\ posted = {}
  /\ nextToken = 2
  /\ started = 0
  /\ run = [r \in Runs |-> IdleRun]

\* a limiter between two refills: full, or with one or no admission left
\* after earlier tasks that have all finished
InitSchedule ==
  /\ PipelineAtRest
  /\ \E l \in Limiters : \E left \in {0, 1, ReservoirAmount(l)} :
       client = [limiter |-> l, reservoir |-> left,
                 admitted |-> ReservoirAmount(l) - left,
                 submitted |-> 0, queue |-> <<>>, running |-> {}, finished |-> {}]

\* limiter.schedule(task): the task joins the queue
Schedule ==
  /\ client.submitted < MaxTasks
  /\ client' = [client EXCEPT !.submitted = @ + 1,
                              !.queue = Append(@, client.submitted + 1)]
  /\ UNCHANGED <<now, creds, config, ledger, posted, nextToken, started, run>>

\* a start that ignores the reservoir
CanStart_noReservoir(l, running, reservoir) == Cardinality(running) < MaxConcurrent(l)

\* maxConcurrent and reservoir: a task may start when a slot is free and the
\* reservoir is not used up
CanStart(l, running, reservoir) ==
  Cardinality(running) < MaxConcurrent(l) /\ reservoir > 0

\* the limiter starts the task at the head of the queue
StartTask ==
  /\ client.queue # <<>>
  /\ CanStart(client.limiter, client.running, client.reservoir)
  /\ client' = [client EXCEPT !.queue = Tail(@),
                              !.running = @ \cup {Head(client.queue)},
                              !.reservoir = @ - 1,
                              !.admitted = @ + 1]
  /\ UNCHANGED <<now, creds, config, ledger, posted, nextToken, started, run>>

\* a running task resolves or rejects
FinishTask ==
  /\ \E t \in client.running :
       client' = [client EXCEPT !.running = @ \ {t}, !.finished = @ \cup {t}]
  /\ UNCHANGED <<now, creds, config, ledger, posted, nextToken, started, run>>

\* reservoirRefreshInterval has passed: the reservoir is set back to
\* reservoirRefreshAmount
RefreshReservoir ==
  /\ client.admitted > 0
  /\ client' = [client EXCEPT !.reservoir = ReservoirAmount(client.limiter),
                              !.admitted = 0]
  /\ UNCHANGED <<now, creds, config, ledger, posted, nextToken, started, run>>

NextSchedule == Schedule \/ StartTask \/ FinishTask \/ RefreshReservoir

SpecSchedule == InitSchedule /\ [][NextSchedule]_vars

\* --------------------------------------------------------- the Reddit cron
CONCURRENCY_LIMIT == 25

Schedules ==
  {"every_5_min", "every_10_min", "every_30_min", "every_hour",
   "every_3_hours", "every_6_hours", "daily"}

\* checkSchedule at hours:minutes of the server clock
checkSchedule(schedule, hours, minutes) ==
  CASE schedule = "every_5_min" -> TRUE
    [] schedule = "every_10_min" -> minutes % 10 = 0
    [] schedule = "every_30_min" -> minutes = 0 \/ minutes = 30
    [] schedule = "every_hour" -> minutes = 0
    [] schedule = "every_3_hours" -> minutes = 0 /\ hours % 3 = 0
    [] schedule = "every_6_hours" -> minutes = 0 /\ hours % 6 = 0
    [] OTHER -> minutes = 0

\* the clock readings of a tick
Ticks == {<<6, 0>>, <<3, 0>>, <<1, 0>>, <<1, 30>>, <<1, 10>>, <<1, 5>>}

\* the redditConfiguration table: row 1 may be disabled or lack a token,
\* row 2 has a schedule of its own, the others run on every tick
CronConfigs(n, odd, schedule) ==
  [k \in 1..n |->
     [enabled |-> ~(k = 1 /\ odd = "disabled"),
      accessToken |-> ~(k = 1 /\ odd = "no token"),
      schedule |-> IF k = 2 THEN schedule ELSE "every_5_min"]]

\* what the invocation for row BadRow meets: a 2xx answer, an error answer,
\* or a fetch or response.json() that throws; the other rows get a 2xx answer
Answers == {"ok", "error", "throws"}
BadRow == 3

InitCron ==
  /\ PipelineAtRest
  /\ \E n \in {CONCURRENCY_LIMIT - 1, CONCURRENCY_LIMIT, CONCURRENCY_LIMIT + MaxExtra},
        odd \in {"none", "disabled", "no token"},
        schedule \in Schedules, tick \in Ticks,
        answer \in Answers :
       client = [pc |-> "start", configs |-> CronConfigs(n, odd, schedule),
                 hours |-> tick[1], minutes |-> tick[2],
                 bad |-> BadRow, answer |-> answer,
                 toProcess |-> <<>>, i |-> 0, inflight |-> {},
                 invoked |-> <<>>, batchResults |-> <<>>, results |-> <<>>]

\* 1, ..., n as a sequence
Indices(n) == [k \in 1..n |-> k]

\* GET up to the loop: findMany of the enabled rows, the filter that records
\* the rows without a token and keeps the rows that are due; a rejected query
\* ends the tick with status 500
CronFilter ==
  /\ client.pc = "start"
  /\ \E dbOk \in BOOLEAN :
       IF ~dbOk THEN client' = [client EXCEPT !.pc = "failed"]
       ELSE LET cfg == client.configs
                IsEnabled == {k \in DOMAIN cfg : cfg[k].enabled}
                NoToken == {k \in DOMAIN cfg : ~cfg[k].accessToken}
                IsDue == {k \in DOMAIN cfg :
                           /\ cfg[k].accessToken
                           /\ checkSchedule(cfg[k].schedule, client.hours, client.minutes)}
                enabledConfigs == Filter(Indices(Len(cfg)), IsEnabled)
                skipped == Filter(enabledConfigs, NoToken)
                kept == Filter(enabledConfigs, IsDue)
            IN client' = [client EXCEPT
                 !.pc = IF kept = <<>> THEN "done" ELSE "loop",
                 !.toProcess = kept,
                 !.results = [j \in 1..Len(skipped) |->
                                [accountId |-> skipped[j], success |-> FALSE]]]
  /\ UNCHANGED <<now, creds, config, ledger, posted, nextToken, started, run>>

\* a batch that takes all the remaining accounts
BatchOf_all(toProcess, i) == SubSeq(toProcess, i + 1, Len(toProcess))

\* accountsToProcess.slice(i, i + CONCURRENCY_LIMIT)
BatchOf(toProcess, i) ==
  SubSeq(toProcess, i + 1,
         IF i + CONCURRENCY_LIMIT < Len(toProcess) THEN i + CONCURRENCY_LIMIT
         ELSE Len(toProcess))

\* batch.map(processAccount): every invocation of the batch is sent
CronStartBatch ==
  /\ client.pc = "loop"
  /\ LET batch == BatchOf(client.toProcess, client.i)
     IN client' = [client EXCEPT
          !.pc = "await",
          !.inflight = {batch[j] : j \in 1..Len(batch)},
          !.invoked = @ \o batch,
          !.batchResults = [j \in 1..Len(batch) |-> [accountId |-> batch[j], settled |-> "pending"]]]
  /\ UNCHANGED <<now, creds, config, ledger, posted, nextToken, started, run>>

\* processAccount without its try/catch: a throw rejects the promise
processAccount_noCatch(accountId, answer) ==
  IF answer = "throws" THEN [accountId |-> accountId, settled |-> "rejected"]
  ELSE [accountId |-> accountId, settled |-> IF answer = "ok" THEN "success" ELSE "failure"]

\* processAccount once the fetch has settled: success is response.ok, and a
\* throw is caught and turned into a failure entry
processAccount(accountId, answer) ==
  [accountId |-> accountId, settled |-> IF answer = "ok" THEN "success" ELSE "failure"]

\* one invocation in flight settles; invocations do not touch each other, so
\* of the like ones the first or the last in flight stands for any of them
CronSettle ==
  /\ client.pc = "await"
  /\ \E t \in client.inflight :
       /\ \/ t = client.bad
          \/ \A u \in client.inflight : t <= u
          \/ \A u \in client.inflight : u <= t
       /\ LET answer == IF t = client.bad THEN client.answer ELSE "ok"
              j == CHOOSE j \in 1..Len(client.batchResults) :
                     client.batchResults[j].accountId = t
          IN client' = [client EXCEPT
               !.inflight = @ \ {t},
               !.batchResults[j] = processAccount(t, answer)]
  /\ UNCHANGED <<now, creds, config, ledger, posted, nextToken, started, run>>

\* await Promise.all: rejects as soon as one promise has rejected, resolves
\* when all have resolved; then results.push and i += CONCURRENCY_LIMIT
CronBatchDone ==
  /\ client.pc = "await"
  /\ LET br == client.batchResults
         rejected == \E j \in 1..Len(br) : br[j].settled = "rejected"
     IN /\ rejected \/ client.inflight = {}
        /\ client' =
             IF rejected THEN [client EXCEPT !.pc = "failed"]
             ELSE [client EXCEPT
                    !.pc = IF client.i + CONCURRENCY_LIMIT < Len(client.toProcess)
                             THEN "loop" ELSE "done",
                    !.i = @ + CONCURRENCY_LIMIT,
                    !.results = @ \o [j \in 1..Len(br) |->
                                       [accountId |-> br[j].accountId,
                                        success |-> br[j].settled = "success"]]]
  /\ UNCHANGED <<now, creds, config, ledger, posted, nextToken, started, run>>

NextCron == CronFilter \/ CronStartBatch \/ CronSettle \/ CronBatchDone

SpecCron == InitCron /\ [][NextCron]_vars

\* ------------------------------------------ batchReply, createReplyThread
\* the tweet ids of the inputs and of the posted replies
ItemTweetId(k) == 10 + k
InitialTweetId == ItemTweetId(0)
PostedTweetId(k) == 20 + k

\* replyToTweet without its try/catch
replyToTweet_noCatch(k, api) ==
  IF api = "ok" THEN [success |-> TRUE, id |-> PostedTweetId(k)]
  ELSE [success |-> FALSE, id |-> -1]

\* replyToTweet for the k-th post once twitterRW.tweet has settled: the tweet
\* on success, handleReplyError's response when the call threw; id -1 marks
\* an exception that leaves the function
replyToTweet(k, api) ==
  IF api = "ok" THEN [success |-> TRUE, id |-> PostedTweetId(k)]
  ELSE [success |-> FALSE, id |-> 0]

\* the loop goes on after every response
GoesOn_always(fn, response) == TRUE

\* batchReply goes on after every item, createReplyThread breaks at the
\* first failure
GoesOn(fn, response) == fn = "batchReply" \/ response.success

InitReply ==
  /\ PipelineAtRest
  /\ \E fn \in {"batchReply", "createReplyThread"}, n \in 0..MaxReplies :
       \E api \in [1..n -> {"ok", "throws"}] :
         client = [fn |-> fn, n |-> n, api |-> api,
                   pc |-> IF n = 0 THEN "returned" ELSE "loop",
                   index |-> 1, currentReplyToId |-> InitialTweetId,
                   posts |-> <<>>, results |-> <<>>,
                   successful |-> 0, failed |-> 0, slept |-> 0]

\* the loop body up to the await: replyToTweet is called
ReplyIssue ==
  /\ client.pc = "loop"
  /\ client' = [client EXCEPT
       !.pc = "posting",
       !.posts = Append(@, [item |-> client.index,
                            inReplyToTweetId |->
                              IF client.fn = "batchReply" THEN ItemTweetId(client.index)
                              ELSE client.currentReplyToId])]
  /\ UNCHANGED <<now, creds, config, ledger, posted, nextToken, started, run>>

\* replyToTweet settles: the result is pushed and counted, then the loop
\* sleeps, breaks or ends
ReplySettle ==
  /\ client.pc = "posting"
  /\ LET response == replyToTweet(client.index, client.api[client.index])
         last == client.index = client.n
     IN client' =
          IF response.id = -1 THEN [client EXCEPT !.pc = "thrown"]
          ELSE [client EXCEPT
                 !.results = Append(@, [item |-> client.index, response |-> response]),
                 !.successful = IF response.success THEN @ + 1 ELSE @,
                 !.failed = IF response.success THEN @ ELSE @ + 1,
                 !.currentReplyToId = IF client.fn = "createReplyThread" /\ response.success
                                        THEN response.id ELSE @,
                 !.pc = IF ~GoesOn(client.fn, response) THEN "returned"
                        ELSE IF client.fn = "batchReply" /\ last THEN "returned"
                        ELSE "sleep"]
  /\ UNCHANGED <<now, creds, config, ledger, posted, nextToken, started, run>>

\* await sleep(...) is over: the next round of the loop, or the return
ReplySleep ==
  /\ client.pc = "sleep"
  /\ client' = [client EXCEPT
       !.slept = @ + 1,
       !.index = @ + 1,
       !.pc = IF client.index = client.n THEN "returned" ELSE "loop"]
  /\ UNCHANGED <<now, creds, config, ledger, posted, nextToken, started, run>>

NextReply == ReplyIssue \/ ReplySettle \/ ReplySleep

SpecReply == InitReply /\ [][NextReply]_vars

\* --------------------------------------------------------- the toggle route
\* the pipeline beside the toggle route: the configuration rows carry the
\* enabled column, one account is fully set up and its token is about to
\* expire
InitToggle ==
  /\ now = 0
  /\ \E f \in Accounts, e \in BOOLEAN :
       /\ creds = [a \in Accounts |->
                    IF a = f THEN [accessToken |-> 1, refreshToken |-> 1,
                                   tokenExpiresAt |-> FiveMinutes]
                    ELSE NoCred]
       /\ config = [a \in Accounts |->
                     IF a = f THEN FullConfig @@ [enabled |-> e]
                     ELSE EmptyConfig @@ [enabled |-> FALSE]]
  /\ ledger = [a \in Accounts |-> <<>>]
  /\ posted = {}
  /\ nextToken = 2
  /\ started = 0
  /\ run = [r \in Runs |-> IdleRun]
  /\ client = [toggles |-> 0, logs |-> <<>>, status |-> 0]

\* POST of the toggle route with body {accountId, enabled}: the two 400
\* answers, then the update of the enabled column and the log entry; a
\* rejected update or log write is answered 500 by the catch
Toggle(accountId, enabled) ==
  /\ client.toggles < MaxToggles
  /\ \E updateOk, logOk \in BOOLEAN :
       LET valid == accountId # "" /\ enabled \in {"true", "false"}
           updated == valid /\ updateOk
           logged == updated /\ logOk
       IN /\ config' = IF updated
                         THEN [config EXCEPT ![accountId].enabled = (enabled = "true")]
                         ELSE config
          /\ client' = [toggles |-> client.toggles + 1,
                        logs |-> IF logged
                                   THEN Append(client.logs,
                                               <<accountId, IF enabled = "true"
                                                              THEN "Automation enabled"
                                                              ELSE "Automation disabled">>)
                                   ELSE client.logs,
                        status |-> IF ~valid THEN 400 ELSE IF logged THEN 200 ELSE 500]
  /\ UNCHANGED <<now, creds, ledger, posted, nextToken, started, run>>

\* the toggle route beside the runs of the scheduled trigger
NextToggle ==
  \/ \E a \in Accounts : StartRun("cron", a)
  \/ RefreshToken("cron")
  \/ PersistToken("cron")
  \/ FetchTweets("cron")
  \/ SearchPosts("cron")
  \/ FilterAndRank("cron")
  \/ GenerateReply("cron")
  \/ PostReply("cron")
  \/ RecordInteraction("cron")
  \/ \E accountId \in Accounts \cup {""}, enabled \in {"true", "false", "yes"} :
       Toggle(accountId, enabled)

SpecToggle == InitToggle /\ [][NextToggle]_vars

\* ------------------------------------------- the fetch with its abort timer
\* a fetch that was issued without a timer
ArmedTimer_none == "none"

\* setTimeout(() => controller.abort(), 15000) before the fetch
ArmedTimer == "armed"

\* a Twitter run inside fetchTweetsFromRapidAPI: the request is out, the
\* timer is armed; the upstream answers 2xx, answers with an error or never
\* answers; the Reddit account is set up too, for runs of other accounts
InitFetch ==
  /\ now = 0
  /\ creds = [a \in Accounts |->
                [accessToken |-> 1, refreshToken |-> 1,
                 tokenExpiresAt |-> IF a = "tw" THEN LongLived ELSE FiveMinutes]]
  /\ config = [a \in Accounts |-> FullConfig]
  /\ ledger = [a \in Accounts |-> <<>>]
  /\ posted = {}
  /\ nextToken = 2
  /\ started = 1
  /\ run = [r \in Runs |->
              IF r = "cron"
                THEN [IdleRun EXCEPT
                        !.pc = "fetching", !.id = 1, !.acct = "tw",
                        !.cred = creds["tw"], !.accessToken = 1,
                        !.steps = <<"ValidateConfig", "RefreshToken">>]
                ELSE IdleRun]
  /\ \E upstream \in {"ok", "error", "never"} :
       client = [pc |-> "pending", timer |-> ArmedTimer, upstream |-> upstream,
                 outcome |-> "none"]

\* the upstream answers: fetch resolves or rejects, finally clearTimeout
FetchSettles ==
  /\ client.pc = "pending"
  /\ client.upstream # "never"
  /\ client' = [client EXCEPT
       !.pc = "settled",
       !.outcome = IF client.upstream = "ok" THEN "resolved" ELSE "rejected",
       !.timer = "cleared"]
  /\ UNCHANGED <<now, creds, config, ledger, posted, nextToken, started, run>>

\* the timer fires while the fetch is pending: controller.abort() rejects the
\* fetch, finally clearTimeout
TimerFires ==
  /\ client.pc = "pending"
  /\ client.timer = "armed"
  /\ client' = [client EXCEPT !.pc = "settled", !.outcome = "aborted", !.timer = "fired"]
  /\ UNCHANGED <<now, creds, config, ledger, posted, nextToken, started, run>>

\* fetchTweetsFromRapidAPI returns or throws into the route's try/catch
FetchReturn ==
  /\ client.pc = "settled"
  /\ \E r \in Runs :
       /\ run[r].pc = "fetching"
       /\ FetchTweetsOutcome(r, TRUE, client.outcome = "resolved")
  /\ client' = [client EXCEPT !.pc = "returned"]
  /\ UNCHANGED <<now, creds, config, ledger, posted, nextToken, started>>

NextFetch == FetchSettles \/ TimerFires \/ FetchReturn \/ Next

\* timers fire and settled promises are resumed by the event loop
SpecFetch ==
  InitFetch /\ [][NextFetch]_vars /\ WF_vars(TimerFires) /\ WF_vars(FetchReturn)

\* ------------------------------------------------------- account creation
MAX_ACCOUNTS_PER_PLATFORM == 3

\* POST /api/accounts of one user for one platform, several requests at
\* once.  db.$transaction is called without an isolation level, so the
\* database default applies: under read committed the statements of two
\* transactions interleave freely, under serializable a transaction whose
\* count was overtaken by another commit fails
InitAccounts ==
  /\ PipelineAtRest
  /\ \E n \in 0..MAX_ACCOUNTS_PER_PLATFORM,
        isolation \in {"read committed", "serializable"} :
       client = [accounts |-> n, isolation |-> isolation,
                 req |-> [q \in 1..MaxRequests |->
                            [pc |-> "start", existingCount |-> 0, status |-> 0,
                             created |-> FALSE]]]

\* tx.account.count and the limit check: at the limit the transaction throws
\* and the catch answers 400
TxCount(q) ==
  /\ client.req[q].pc = "start"
  /\ client' = [client EXCEPT !.req[q] =
       IF client.accounts >= MAX_ACCOUNTS_PER_PLATFORM
         THEN [@ EXCEPT !.pc = "done", !.existingCount = client.accounts, !.status = 400]
         ELSE [@ EXCEPT !.pc = "counted", !.existingCount = client.accounts]]
  /\ UNCHANGED <<now, creds, config, ledger, posted, nextToken, started, run>>

\* tx.account.create and the commit; a failed statement or commit is
\* answered 500
TxCreate(q) ==
  /\ client.req[q].pc = "counted"
  /\ \E dbOk \in BOOLEAN :
       LET overtaken == client.accounts # client.req[q].existingCount
           commits == dbOk /\ ~(client.isolation = "serializable" /\ overtaken)
       IN client' = [client EXCEPT
            !.accounts = IF commits THEN @ + 1 ELSE @,
            !.req[q] = [@ EXCEPT !.pc = "done", !.created = commits,
                                 !.status = IF commits THEN 200 ELSE 500]]
  /\ UNCHANGED <<now, creds, config, ledger, posted, nextToken, started, run>>

NextAccounts == \E q \in 1..MaxRequests : TxCount(q) \/ TxCreate(q)

SpecAccounts == InitAccounts /\ [][NextAccounts]_vars

\* ------------------------------------------------------ the cleanup cron
ThirtyDays == 43200      \* INTERACTION_RETENTION_DAYS, in minutes

\* interaction rows of every age and kind: older than thirty days, older
\* than a day, new; with a reply (odd ids) and without
LedgerRows(S) ==
  LET seq == SetToSeq(S)
  IN [k \in 1..Len(seq) |->
        [id |-> seq[k], ourReply |-> seq[k] % 2,
         createdAt |-> IF seq[k] <= 2 THEN 0
                       ELSE IF seq[k] <= 4 THEN ThirtyDays - OneDay
                       ELSE ThirtyDays + 1]]

InitCleanup ==
  /\ now = ThirtyDays + 2
  /\ creds = [a \in Accounts |->
                [accessToken |-> 1, refreshToken |-> 1, tokenExpiresAt |-> now + LongLived]]
  /\ config = [a \in Accounts |-> FullConfig]
  /\ \E S \in {1..6, 3..6, {1, 2}} :
       ledger = [a \in Accounts |-> IF a = "tw" THEN LedgerRows(1..6) ELSE LedgerRows(S)]
  /\ posted = {}
  /\ nextToken = 2
  /\ started = 0
  /\ run = [r \in Runs |-> IdleRun]
  /\ client = NoClient

\* GET of the cleanup cron: deleteMany on the tweet interactions, then on the
\* Reddit interactions, of rows without a reply created before the cutoff;
\* a rejected deleteMany ends the sweep with status 500
CleanupSweep ==
  /\ \E tables \in {{}, {"twitter"}, {"twitter", "reddit"}} :
       ledger' = [a \in Accounts |->
                    IF Platform(a) \in tables
                      THEN DropRows(ledger[a],
                                    {k \in 1..Len(ledger[a]) :
                                       /\ ledger[a][k].createdAt < now - ThirtyDays
                                       /\ ledger[a][k].ourReply = 0})
                      ELSE ledger[a]]
  /\ UNCHANGED <<now, creds, config, posted, nextToken, started, run, client>>

NextCleanup ==
  \/ \E r \in Runs : PostedNewItem(r)
  \/ \E r \in Runs : RecordInteraction(r)
  \/ CleanupSweep

SpecCleanup == InitCleanup /\ [][NextCleanup]_vars

\* ----------------------------------------------------------- VisionAnalyze
MaxVisionImages == 4

\* a request that carries every image of the tweet
SentUrls_all(n) == n

\* imageUrls.slice(0, 4): how many image URLs go into the request
SentUrls(n) == IF n > MaxVisionImages THEN MaxVisionImages ELSE n

\* what the vision endpoint does with a request
VisionUpstream == {"text", "empty", "error", "throws"}

\* analyzeImageWithVision: no request without a model or without images;
\* a non-2xx answer and an answer without content give "", a failed fetch throws
analyzeImageWithVision(visionModel, n, upstream) ==
  IF ~visionModel \/ n = 0
    THEN [requests |-> 0, sent |-> 0, thrown |-> FALSE, description |-> ""]
    ELSE [requests |-> 1, sent |-> SentUrls(n), thrown |-> upstream = "throws",
          description |-> IF upstream = "text" THEN "text" ELSE ""]

\* a Twitter run that has selected its tweet: the tweet has 0..MaxImages
\* images, a vision model is selected or not
InitVision ==
  /\ now = 0
  /\ creds = [a \in Accounts |->
                IF a = "tw" THEN [accessToken |-> 1, refreshToken |-> 1,
                                  tokenExpiresAt |-> LongLived]
                ELSE NoCred]
  /\ config = [a \in Accounts |-> IF a = "tw" THEN FullConfig ELSE EmptyConfig]
  /\ ledger = [a \in Accounts |-> <<>>]
  /\ posted = {}
  /\ nextToken = 2
  /\ started = 1
  /\ run = [r \in Runs |->
              IF r = "cron"
                THEN [IdleRun EXCEPT
                        !.pc = "vision", !.id = 1, !.acct = "tw",
                        !.cred = creds["tw"], !.accessToken = 1, !.target = 1,
                        !.steps = <<"ValidateConfig", "RefreshToken", "FetchCandidates",
                                    "FilterAndRank">>,
                        !.calls = [token |-> 0, fetch |-> 1, llm |-> 0, post |-> 0]]
                ELSE IdleRun]
  /\ \E n \in 0..MaxImages, visionModel \in BOOLEAN :
       client = [pc |-> "selected", images |-> n, visionModel |-> visionModel,
                 requests |-> 0, sent |-> 0, upstream |-> "none", imageDescription |-> ""]

\* Step 5 of POST: the if, and inside its try block the "Analyzing" log, the
\* analysis and the "Image analysis" log; the catch swallows whatever threw
VisionAnalyze(r) ==
  /\ run[r].pc = "vision"
  /\ \E ok1 \in BOOLEAN, upstream \in VisionUpstream, ok2 \in BOOLEAN :
       LET entered == client.images > 0 /\ client.visionModel
           called == entered /\ ok1
           out == analyzeImageWithVision(client.visionModel, client.images, upstream)
           description == IF called /\ ~out.thrown THEN out.description ELSE ""
           log1 == IF called THEN <<<<"info", "Analyzing image(s)">>>> ELSE <<>>
           log2 == IF description # "" /\ ok2 THEN <<<<"info", "Image analysis">>>> ELSE <<>>
       IN /\ client' = [client EXCEPT
                 !.pc = "analyzed",
                 !.requests = IF called THEN out.requests ELSE 0,
                 !.sent = IF called THEN out.sent ELSE 0,
                 !.upstream = IF called THEN upstream ELSE "none",
                 !.imageDescription = description]
          /\ run' = [run EXCEPT ![r] =
                 [@ EXCEPT !.pc = After("FilterAndRank"), !.logs = @ \o log1 \o log2]]
  /\ UNCHANGED <<now, creds, config, ledger, posted, nextToken, started>>

NextVision ==
  \/ \E r \in Runs : VisionAnalyze(r)
  \/ \E r \in Runs : GenerateReply(r)
  \/ \E r \in Runs : PostReply(r)
  \/ \E r \in Runs : RecordInteraction(r)

SpecVision == InitVision /\ [][NextVision]_vars

\* ===================================================================== claims
Started(r) == run[r].pc # "idle"
Done(r) == run[r].pc = "done"
\* the replies that run r put on the platform
PostsOf(r) == {x \in posted : x.run = run[r].id}
IsPrefix(s, t) == Len(s) <= Len(t) /\ \A k \in 1..Len(s) : s[k] = t[k]
StepOrder ==
  <<"ValidateConfig", "RefreshToken", "FetchCandidates", "FilterAndRank",
    "GenerateReply", "PostReply", "RecordInteraction">>
LastStep(r) == run[r].steps[Len(run[r].steps)]
HasLog(r, level) == \E k \in 1..Len(run[r].logs) : run[r].logs[k][1] = level

\* C1: for every account, no content item is replied to more than once, over
\* any sequence and interleaving of runs.
C1_NeverReplyTwice ==
  \A x \in posted, y \in posted :
    (x.acct = y.acct /\ x.item = y.item) => x.run = y.run

\* C2: the steps of a run start in the fixed order; the reply is posted only
\* after the generator returned one, and the ledger is written only after the
\* post for that item succeeded.
C2_FixedStepOrder ==
  \A r \in Runs :
    /\ IsPrefix(run[r].steps, StepOrder)
    /\ run[r].calls.post > 0 => (run[r].calls.llm = 1 /\ run[r].reply # 0)
    /\ run[r].writes.ledger > 0 =>
         \E x \in PostsOf(r) : x.item = run[r].target /\ x.text = run[r].reply

C2_Witness ==
  \E r \in Runs : run[r].steps = StepOrder /\ run[r].writes.ledger = 1 /\ Done(r)

\* C3: a failed RefreshToken, FetchCandidates, GenerateReply or PostReply ends
\* the run with an error response (401 for the refresh, 500 for the others),
\* no later step runs, nothing is posted after a failed generation, nothing is
\* recorded after a failed post, and no call is made twice.
C3_TerminalOnFailure ==
  \A r \in Runs :
    run[r].failed \in {"RefreshToken", "FetchCandidates", "GenerateReply", "PostReply"} =>
      /\ Done(r)
      /\ run[r].resp.status = IF run[r].failed = "RefreshToken" THEN 401 ELSE 500
      /\ LastStep(r) = run[r].failed
      /\ \A k \in {"token", "fetch", "llm", "post"} : run[r].calls[k] <= 1
      /\ run[r].failed = "GenerateReply" => run[r].calls.post = 0
      /\ run[r].failed = "PostReply" => (run[r].writes.ledger = 0 /\ run[r].resp.reply = 0)

\* the required fields the claim lists, in the order the route tests them
ClaimedMissing(p, c, cfg) ==
  IF p = "twitter" /\ ~cfg.rapidApiKey THEN "RapidAPI key not configured"
  ELSE IF c.accessToken = Absent
    THEN (IF p = "twitter" THEN "Twitter OAuth not connected"
                           ELSE "Reddit OAuth not connected")
  ELSE IF cfg.search \in {"null", "blank"} THEN "No keywords configured"
  ELSE IF ~cfg.apiKey THEN "OpenRouter API key not configured"
  ELSE IF ~cfg.selectedModel THEN "No LLM model selected"
  ELSE ""

\* C4: a run that starts with a required field absent aborts at the first
\* missing field with an error response naming it, writes an error log entry,
\* and makes no network call and no credential or ledger write.
C4_MissingFieldAborts ==
  \A r \in Runs :
    LET missing == ClaimedMissing(Platform(run[r].acct), run[r].cred, config[run[r].acct])
    IN (Started(r) /\ missing # "") =>
         /\ Done(r)
         /\ run[r].resp.status = 400
         /\ run[r].resp.error = missing
         /\ HasLog(r, "error")
         /\ run[r].calls = NoCalls
         /\ run[r].writes = NoWrites

\* C5: when the reply was posted and the ledger upsert or the cleanup fails,
\* the run still answers replied = true with the posted text, and a warning
\* log entry is written.
C5_RecordBestEffort ==
  \A r \in Runs :
    run[r].failed = "RecordInteraction" =>
      /\ run[r].resp.status = 200
      /\ run[r].resp.replied
      /\ \E x \in PostsOf(r) : x.text = run[r].resp.reply
      /\ HasLog(r, "warning")

\* C6: a failing log write changes neither the steps that run nor the outcome:
\* once the reply is posted, the run records the interaction and answers
\* replied = true whatever happens to log writes.
C6_LogsNotControlFlow ==
  \A r \in Runs :
    (Done(r) /\ PostsOf(r) # {}) =>
      (run[r].resp.replied /\ LastStep(r) = "RecordInteraction")

\* C7: when the fetch returns no items, or no candidate is left after the
\* filter, the run ends with a non-error response with replied = false, and
\* makes no LLM call, posts nothing and writes no ledger record.
C7_EmptyIsNoAction ==
  \A r \in Runs :
    run[r].empty =>
      /\ Done(r) => (run[r].resp.status = 200 /\ ~run[r].resp.replied)
      /\ run[r].calls.llm = 0
      /\ run[r].calls.post = 0
      /\ run[r].writes.ledger = 0

\* C8: refreshTokenIfNeeded makes no token-endpoint call and returns null when
\* a token is absent; makes no call and returns the existing token and expiry
\* when the expiry is more than five minutes ahead; and in every other case
\* makes exactly one exchange, never a second one.
C8_RefreshContract ==
  LET c == client.cred
      absent == c.accessToken = Absent \/ c.refreshToken = Absent
      ahead == c.tokenExpiresAt # NoExpiry /\ c.tokenExpiresAt - now > FiveMinutes
  IN /\ client.calls <= 1
     /\ client.pc \notin {"none", "called"} =>
          /\ absent => (client.pc = "returned null" /\ client.calls = 0)
          /\ (~absent /\ ahead) =>
               /\ client.pc = "returned" /\ client.calls = 0
               /\ client.result.accessToken = c.accessToken
               /\ client.result.expiresAt = c.tokenExpiresAt
          /\ (~absent /\ ~ahead) =>
               /\ client.calls = 1
               /\ client.pc \in {"exchange", "returned", "thrown"}

C8_Witness ==
  /\ client.pc = "returned" /\ client.calls = 1
  /\ client.cred.tokenExpiresAt = now + FiveMinutes

\* C9: with both tokens present and no expiry, refreshTokenIfNeeded returns
\* the existing access token without an exchange, and the token status of the
\* account is healthy.
C9_NoExpiryNeverRefreshed ==
  LET c == client.cred
  IN (client.pc \notin {"none", "called"} /\ c.accessToken # Absent
        /\ c.refreshToken # Absent /\ c.tokenExpiresAt = NoExpiry) =>
       /\ client.calls = 0
       /\ client.pc = "returned"
       /\ client.result.accessToken = c.accessToken
       /\ getTokenStatus(c.accessToken, c.tokenExpiresAt, c.refreshToken, now) = "healthy"

\* C10: a run that exchanged its token has written the new access token and
\* expiry to the credential record before it issues its candidate fetch: from
\* the fetch on, the record holds an issued, unexpired token (the run's own
\* one when no other run exchanged), never the stale one the run loaded.
C10_RefreshedTokenPersisted ==
  \A r \in Runs :
    (run[r].calls.token = 1 /\ (run[r].calls.fetch > 0 \/ run[r].pc = After("RefreshToken"))) =>
      LET row == creds[run[r].acct]
      IN /\ run[r].writes.cred = 1
         /\ run[r].accessToken = run[r].tokenResult.accessToken
         /\ row.accessToken \in 2..(nextToken - 1)
         /\ row.accessToken # run[r].cred.accessToken
         /\ row.tokenExpiresAt > now + FiveMinutes
         /\ nextToken = 3 =>
              (row.accessToken = run[r].tokenResult.accessToken
                 /\ row.tokenExpiresAt = run[r].tokenResult.expiresAt)

C10_Witness ==
  \E r \in Runs :
    /\ run[r].calls.token = 1 /\ run[r].calls.fetch = 1 /\ run[r].writes.cred = 1
    /\ creds[run[r].acct].accessToken = run[r].tokenResult.accessToken

\* C11: the credential row changes only in the RefreshToken step of a run that
\* exchanged its token; a run whose token was still valid never writes it, and
\* no run writes it more than once.
C11_CredentialFrame ==
  /\ [](\A r \in Runs : run[r].writes.cred <= run[r].calls.token)
  /\ [][creds' # creds =>
         \E r \in Runs : /\ run[r].pc = "persist"
                         /\ LastStep(r) = "RefreshToken"
                         /\ run[r].calls.token = 1
                         /\ run'[r].writes.cred = run[r].writes.cred + 1]_vars

C11_Witness ==
  \E r \in Runs :
    /\ Done(r) /\ run[r].resp.replied
    /\ run[r].calls.token = 0 /\ run[r].writes.cred = 0
    /\ creds[run[r].acct] = run[r].cred

SeqToSet(seq) == {seq[k] : k \in 1..Len(seq)}

\* C12: the selected item is a maximum of the eligible candidates: none has a
\* higher score, and in the Twitter pipeline none with the same score has
\* fewer replies.
C12_SelectedIsBest ==
  client.pc = "picked" =>
    /\ client.selected \in SeqToSet(client.eligible)
    /\ \A e \in SeqToSet(client.eligible) :
         /\ Score(e) <= Score(client.selected)
         /\ (Platform(client.acct) = "twitter" /\ Score(e) = Score(client.selected)) =>
              Replies(e) >= Replies(client.selected)

C12_Witness ==
  /\ client.pc = "picked" /\ Platform(client.acct) = "twitter"
  /\ \E e \in SeqToSet(client.eligible) :
       /\ e < client.selected
       /\ Score(e) = Score(client.selected)
       /\ Replies(e) > Replies(client.selected)

\* the threshold the account configured, the default when none is configured
ConfiguredThreshold(p, cfg) ==
  IF cfg.minimum # NoMinimum THEN cfg.minimum
  ELSE IF p = "twitter" THEN DefaultMinimumLikes ELSE DefaultMinimumUpvotes

\* C13: a fetched candidate is eligible exactly when it is not in the ledger,
\* its author is neither the account nor "[deleted]", and its score is at
\* least the configured threshold (the default only when none is configured).
C13_EligibleExactly ==
  client.pc \in {"filtered", "picked", "none left"} =>
    SeqToSet(client.eligible) =
      {i \in SeqToSet(client.found) :
         /\ \A k \in 1..Len(ledger[client.acct]) : ledger[client.acct][k].id # i
         /\ Author(i) # OwnUsername
         /\ Author(i) # "[deleted]"
         /\ Score(i) >= ConfiguredThreshold(Platform(client.acct), config[client.acct])}

\* the rows of a ledger, as a set
RowsOf(rows) == {rows[k] : k \in 1..Len(rows)}

\* C14: when a run has posted and its upsert and cleanup succeed, the ledger
\* of the account holds at most KeepLast rows afterwards, the row of the new
\* reply among them, and every deleted row is older than every kept one.
C14_LedgerCapped ==
  [][\A r \in Runs :
       (run[r].pc = "record" /\ run'[r].pc = "done" /\ run'[r].failed = ""
          /\ run'[r].resp.replied) =>
         LET kept == RowsOf(ledger'[run[r].acct])
             before == RowsOf(ledger[run[r].acct])
         IN /\ Len(ledger'[run[r].acct]) <= KeepLast
            /\ \E x \in kept : x.id = run[r].target
            /\ \A x \in before \ kept : \A y \in kept : x.createdAt < y.createdAt]_vars

\* C15: on a 2xx response postComment returns the comment name found at the
\* end of the path, "unknown" otherwise, and does not throw; the run then
\* records the interaction and answers replied = true; postComment throws
\* only on a non-2xx response, with the upstream error text in the message.
C15_PostCommentShape ==
  client.pc \in {"settled", "used"} =>
    LET response == client.response
    IN /\ response.ok =>
            /\ client.outcome = "returned"
            /\ client.value =
                 IF response.json /\ response.links = PathLen /\ response.name # ""
                   THEN response.name ELSE "unknown"
            /\ \A r \in Runs :
                 (Done(r) /\ client.pc = "used") =>
                   (run[r].resp.replied /\ LastStep(r) = "RecordInteraction")
       /\ ~response.ok =>
            /\ client.outcome = "thrown"
            /\ client.value = "Failed to post comment: " \o response.text

\* the segments of str between commas, as pairs of the positions around them
Segments(str) ==
  LET cut == {0, Len(str) + 1} \cup {i \in 1..Len(str) : str[i] = ","}
  IN {seg \in cut \X cut :
        seg[1] < seg[2] /\ \A c \in cut : ~(seg[1] < c /\ c < seg[2])}

\* the positions of a segment that hold something other than a blank
Inked(str, seg) == {i \in (seg[1] + 1)..(seg[2] - 1) : str[i] # " "}

\* a segment from its first to its last such position
Entry(str, seg) ==
  LET ink == Inked(str, seg)
  IN SubSeq(str, CHOOSE i \in ink : \A j \in ink : i <= j,
                 CHOOSE i \in ink : \A j \in ink : i >= j)

RECURSIVE OrQuery(_, _)
\* the entries of the segments S, leftmost first, with " OR " between them
OrQuery(str, S) ==
  LET first == CHOOSE seg \in S : \A other \in S : seg[1] <= other[1]
  IN IF Cardinality(S) = 1 THEN Entry(str, first)
     ELSE Entry(str, first) \o <<" ", "O", "R", " ">> \o OrQuery(str, S \ {first})

\* C16: searchPosts makes no request and returns the empty list when no
\* comma-separated entry of the keyword string holds anything but blanks;
\* otherwise it makes exactly one request, whose query is the non-blank
\* entries, trimmed, in their order, joined with " OR ".
C16_SearchQuery ==
  client.pc # "called" =>
    LET str == client.keywords
        kept == {seg \in Segments(str) : Inked(str, seg) # {}}
    IN IF kept = {}
         THEN client.pc = "returned" /\ client.calls = 0 /\ client.posts = <<>>
         ELSE client.calls = 1 /\ client.query = OrQuery(str, kept)

C16_Witness ==
  /\ client.pc = "returned" /\ client.calls = 1
  /\ client.keywords = <<" ", "a", ",", "b">>
  /\ client.query = <<"a", " ", "O", "R", " ", "b">>


\* a string with nothing but blanks in it (the empty string included)
Blank(str) == \A k \in 1..Len(str) : str[k][1] = " "

\* C17: a generator never hands back an empty or whitespace-only reply: when
\* nothing is left after all its processing it throws, and the run posts
\* nothing
C17_NeverEmptyReply ==
  /\ client.pc \in {"settled", "done"} /\ client.outcome = "returned"
       => ~Blank(client.reply)
  /\ client.pc = "done" /\ client.sent => ~Blank(client.reply)

\* C18: every string a generator returns is at most the platform's maximum
\* long (280 for Twitter, 500 for Reddit), whichever path produced it
C18_ReplyLengthCapped ==
  client.pc \in {"settled", "done"} /\ client.outcome = "returned"
    => Length(client.reply) <= MaxLength(client.gen)

\* a content longer than the maximum went through the clean-up and came
\* back cut to exactly the maximum
C18_Witness ==
  /\ client.pc = "done"
  /\ client.outcome = "returned"
  /\ CleansUp(client.gen)
  /\ ~client.reasoning
  /\ Head(client.content)[1] = Quote
  /\ Length(client.content) > MaxLength(client.gen) + 1
  /\ Length(client.reply) = MaxLength(client.gen)

RECURSIVE LeadingQuotes(_)
\* the number of quote characters a string starts with
LeadingQuotes(str) ==
  IF str # <<>> /\ Head(str)[1] = Quote
    THEN Head(str)[2] + LeadingQuotes(Tail(str))
    ELSE 0

RECURSIVE TrailingQuotes(_)
\* the number of quote characters a string ends with
TrailingQuotes(str) ==
  IF str # <<>> /\ str[Len(str)][1] = Quote
    THEN str[Len(str)][2] + TrailingQuotes(SubSeq(str, 1, Len(str) - 1))
    ELSE 0

\* C19: a quote character wrapping the content is stripped from the reply,
\* with or without a reasoning field, in every generator
C19_QuotesStripped ==
  client.pc \in {"settled", "done"} /\ client.outcome = "returned"
    => LET content == TrimContent(client.content)
       IN /\ LeadingQuotes(content) > 0
               => LeadingQuotes(client.reply) < LeadingQuotes(content)
          /\ TrailingQuotes(content) > 0
               => TrailingQuotes(client.reply) < TrailingQuotes(content)


\* the calls of a run that leave for the platform: token refresh, fetch or
\* search, post
PlatformCalls(r) == run[r].calls.token + run[r].calls.fetch + run[r].calls.post

\* C20: every outbound platform call of every run was admitted by the
\* platform's process-wide rate limiter: no run has made more calls than the
\* limiter has let through
C20_CallsAdmitted ==
  \A r \in Runs : PlatformCalls(r) <= client.done


\* C21: a limiter never runs more than maxConcurrent tasks at once, its
\* reservoir is never negative, at most the reservoir amount of tasks is
\* admitted between two refills, and a task that cannot start waits in the
\* queue in the order of the schedule calls and is never dropped
C21_LimiterBounds ==
  LET l == client.limiter
      waiting == {client.queue[k] : k \in 1..Len(client.queue)}
  IN /\ Cardinality(client.running) <= MaxConcurrent(l)
     /\ client.reservoir >= 0
     /\ client.admitted <= ReservoirAmount(l)
     /\ waiting \cup client.running \cup client.finished = 1..client.submitted
     /\ \A j, k \in 1..Len(client.queue) : j < k => client.queue[j] < client.queue[k]
     /\ \A w \in waiting : \A t \in client.running \cup client.finished : t < w

\* the reservoir is used up, tasks of this window have finished and a
\* task is held in the queue
C21_Witness ==
  /\ client.reservoir = 0
  /\ client.admitted = ReservoirAmount(client.limiter)
  /\ client.running = {}
  /\ client.finished # {}
  /\ client.queue # <<>>


\* C22: the cron never has more than 25 invocations in flight: the accounts
\* are invoked in their order, a batch of at most 25 at a time, all of a
\* batch together, and none of the next batch while one of this batch is
\* still in flight
C22_BatchBarrier ==
  LET n == Len(client.toProcess)
      upTo == IF client.i + CONCURRENCY_LIMIT < n THEN client.i + CONCURRENCY_LIMIT ELSE n
  IN /\ Cardinality(client.inflight) <= CONCURRENCY_LIMIT
     /\ Len(client.invoked) <= n
     /\ client.invoked = SubSeq(client.toProcess, 1, Len(client.invoked))
     /\ client.pc = "await" => Len(client.invoked) = upTo
     /\ client.pc = "loop" => Len(client.invoked) = client.i
     /\ client.inflight \subseteq {client.toProcess[j] : j \in (client.i + 1)..upTo}
     /\ client.pc # "await" => client.inflight = {}

\* the second batch is in flight, the first has resolved and is in results
C22_Witness ==
  /\ client.pc = "await"
  /\ client.i = CONCURRENCY_LIMIT
  /\ client.inflight # {}
  /\ Len(client.results) >= CONCURRENCY_LIMIT

\* how many times x occurs in seq
Count(seq, x) == Cardinality({j \in 1..Len(seq) : seq[j] = x})

\* the rows a tick has to run: enabled, with a token, schedule due
DueRows ==
  {k \in DOMAIN client.configs :
     /\ client.configs[k].enabled
     /\ client.configs[k].accessToken
     /\ checkSchedule(client.configs[k].schedule, client.hours, client.minutes)}

\* C28: a tick invokes the pipeline once for every enabled account with a
\* token whose schedule is due and for no other, each invoked account gets
\* one result entry, and a failed or throwing invocation stops no other one
C28_EveryDueAccountOnce ==
  LET invokedRows == {client.invoked[j] : j \in 1..Len(client.invoked)}
  IN /\ Cardinality(invokedRows) = Len(client.invoked)
     /\ invokedRows \subseteq DueRows
     /\ client.pc = "done" =>
          /\ invokedRows = DueRows
          /\ \A k \in invokedRows :
               Count([j \in 1..Len(client.results) |-> client.results[j].accountId], k) = 1
     /\ client.pc = "failed" => client.invoked = <<>>

\* a tick of two batches has completed although one invocation threw
C28_Witness ==
  /\ client.pc = "done"
  /\ client.answer = "throws"
  /\ client.i > CONCURRENCY_LIMIT
  /\ Count(client.invoked, client.bad) = 1
  /\ \E j \in 1..Len(client.results) :
       client.results[j].accountId = client.bad /\ ~client.results[j].success


\* C23: batchReply posts one item at a time in input order, the next post
\* only after the previous one has completed and the delay has elapsed, with
\* no delay after the last item; it attempts every item whatever failed
\* before, never throws, and returns the results in input order with
\* successful + failed = total = number of items
C23_BatchSequential ==
  client.fn = "batchReply" =>
    /\ client.pc # "thrown"
    /\ \A k \in 1..Len(client.posts) :
         client.posts[k] = [item |-> k, inReplyToTweetId |-> ItemTweetId(k)]
    /\ \A k \in 1..Len(client.results) :
         /\ client.results[k].item = k
         /\ client.results[k].response.success = (client.api[k] = "ok")
    /\ Len(client.posts) = Len(client.results) + (IF client.pc = "posting" THEN 1 ELSE 0)
    /\ client.pc \in {"loop", "posting"} => client.slept = client.index - 1
    /\ client.pc = "loop" => Len(client.posts) = client.slept
    /\ client.successful + client.failed = Len(client.results)
    /\ client.pc = "returned" =>
         /\ Len(client.results) = client.n
         /\ client.successful + client.failed = client.n
         /\ client.slept = (IF client.n = 0 THEN 0 ELSE client.n - 1)

\* a batch has returned after a failed item that was not the last one
C23_Witness ==
  /\ client.fn = "batchReply"
  /\ client.pc = "returned"
  /\ client.n = MaxReplies
  /\ client.failed > 0
  /\ client.api[1] = "throws"
  /\ client.successful > 0

\* C24: createReplyThread attempts link k only when links 1..k-1 succeeded,
\* replying to the id returned for link k-1 (the initial id for k = 1);
\* after the first failure nothing more is posted, so the results are
\* successes followed by at most one failure and no more than the texts
C24_ThreadStopsAtFailure ==
  client.fn = "createReplyThread" =>
    /\ Len(client.results) <= client.n
    /\ Len(client.posts) <= Len(client.results) + 1
    /\ \A k \in 1..Len(client.posts) :
         /\ \A j \in 1..(k - 1) : client.results[j].response.success
         /\ client.posts[k].inReplyToTweetId =
              (IF k = 1 THEN InitialTweetId ELSE client.results[k - 1].response.id)
    /\ \A k \in 1..Len(client.results) :
         ~client.results[k].response.success => k = Len(client.results)
    /\ client.pc = "returned" =>
         \/ Len(client.results) = client.n
         \/ client.results # <<>> /\ ~client.results[Len(client.results)].response.success

\* a thread has returned after its second link failed, a third text left
C24_Witness ==
  /\ client.fn = "createReplyThread"
  /\ client.pc = "returned"
  /\ client.n = MaxReplies
  /\ Len(client.results) = 2
  /\ client.results[1].response.success
  /\ ~client.results[2].response.success
  /\ client.posts[2].inReplyToTweetId = PostedTweetId(1)


\* the set-up of account a passes the field checks of the run route
FieldsComplete(p, c, cfg) ==
  IF p = "twitter" THEN TwitterMissing(c, cfg) = "" ELSE RedditMissing(c, cfg) = ""

\* C25: a toggle request changes only the enabled flag of its account and
\* appends one log entry, and changes nothing when accountId is missing or
\* enabled is not a boolean; the pipeline never reads the flag: a run of an
\* account whose fields are complete passes validation, enabled or not
C25_ToggleFrame ==
  /\ [][client' # client =>
          /\ UNCHANGED <<now, creds, ledger, posted, nextToken, started, run>>
          /\ \A a \in Accounts :
               [config'[a] EXCEPT !.enabled = config[a].enabled] = config[a]
          /\ Cardinality({a \in Accounts : config'[a] # config[a]}) <= 1
          /\ Len(client'.logs) \in {Len(client.logs), Len(client.logs) + 1}
          /\ client'.status = 400 => config' = config /\ client'.logs = client.logs
          /\ client'.status = 200 => Len(client'.logs) = Len(client.logs) + 1
          /\ config' # config => client'.status # 400]_vars
  /\ [][config' # config => client' # client]_vars
  /\ [](\A r \in Runs :
          (run[r].pc # "idle"
             /\ FieldsComplete(Platform(run[r].acct), run[r].cred, config[run[r].acct]))
            => run[r].failed # "ValidateConfig" /\ run[r].resp.status # 400)

\* a run of an account whose automation was switched off has posted a reply
C25_Witness ==
  \E r \in Runs :
    /\ run[r].resp.replied
    /\ ~config[run[r].acct].enabled
    /\ client.status = 200
    /\ client.logs # <<>>


\* C26: a Twitter run whose fetch never answers still terminates: the timer
\* aborts the fetch, the abort is a failure of FetchCandidates, the run ends
\* with an error response and neither generates nor posts, runs of other
\* accounts are untouched, and the timer is cleared once the fetch settled
C26_FetchTimeout ==
  /\ [](client.pc = "pending" => client.timer = "armed")
  /\ [](client.pc # "pending" => client.timer # "armed")
  /\ [](\A r \in Runs :
          (run[r].id = 1 /\ client.pc = "returned" /\ client.outcome = "aborted")
            => /\ run[r].pc = "done"
               /\ run[r].resp.status = 500
               /\ ~run[r].resp.replied
               /\ run[r].failed = "FetchCandidates"
               /\ run[r].calls.llm = 0
               /\ run[r].calls.post = 0)
  /\ [][client' # client =>
          /\ UNCHANGED <<creds, config, ledger, posted>>
          /\ \A r \in Runs : run[r].id # 1 => run'[r] = run[r]]_vars
  /\ (client.pc = "pending" /\ client.upstream = "never") ~> (client.pc = "returned")

\* the fetch never answered and was aborted, the run has ended with an
\* error, and a later run has replied
C26_Witness ==
  /\ client.upstream = "never"
  /\ client.outcome = "aborted"
  /\ client.pc = "returned"
  /\ \E r \in Runs : run[r].id = 1 /\ run[r].resp.status = 500
  /\ \E r \in Runs : run[r].id # 1 /\ run[r].resp.replied


\* C27: a user never has more than 3 accounts on a platform, also when
\* several creation requests run at once, and a request that finds 3
\* accounts is answered 400 and creates nothing
C27_AccountLimit ==
  /\ client.accounts <= MAX_ACCOUNTS_PER_PLATFORM
  /\ \A q \in 1..MaxRequests :
       (client.req[q].pc = "done"
          /\ client.req[q].existingCount >= MAX_ACCOUNTS_PER_PLATFORM)
         => client.req[q].status = 400 /\ ~client.req[q].created


\* the ids of the rows of a ledger
IdsOf(rows) == {rows[k].id : k \in 1..Len(rows)}

C30_VisionNonFatal ==
  /\ client.requests <= 1
  /\ client.requests = 1 => client.images > 0 /\ client.visionModel
  /\ client.sent <= MaxVisionImages /\ client.sent <= client.images
  /\ client.requests = 1 => client.sent >= 1
  /\ client.pc = "analyzed" =>
       /\ \A r \in Runs : run[r].id = 1 =>
            \/ run[r].pc = "generate" /\ run[r].failed = ""
            \/ /\ Len(run[r].steps) >= 5
               /\ run[r].steps[5] = "GenerateReply"
               /\ run[r].calls.llm = 1
       /\ (client.requests = 0 \/ client.upstream \in {"empty", "error", "throws"})
            => client.imageDescription = ""

\* the analysis of a tweet with more than four images threw, and the run
\* went on to generate and post its reply
C30_Witness ==
  /\ client.pc = "analyzed"
  /\ client.upstream = "throws"
  /\ client.images > MaxVisionImages
  /\ client.sent = MaxVisionImages
  /\ \E r \in Runs : run[r].id = 1 /\ run[r].resp.replied

====
